---- MODULE Spec2Model ----
(***************************************************************************)
(* coconut: a local secrets vault.  State machine of the Vault, the        *)
(* Session Manager, the configuration and the command layer that ties them *)
(* together (EnsureVaultUnlocked, init, lock, config set, add, list).      *)
(*                                                                         *)
(* Cryptography is modelled symbolically: a ciphertext is the term         *)
(* (key, nonce, plaintext), decryption succeeds only under the key of the  *)
(* term; Argon2 is an injective term of (password, salt); base64 is a      *)
(* wrapper term that decodes only what was encoded.                        *)
(*                                                                         *)
(* Specifications: Spec (the commands), SpecVault (the Vault's API),       *)
(* SpecRepo (the Encrypted Record Store's API over the bucketed store),    *)
(* SpecSession (the Session Manager's API), SpecRace (Lock overlapping     *)
(* Encrypt or Decrypt on one Vault), SpecInit (initialization with store   *)
(* writes that can fail), SpecSystem (the vault package's readers of the   *)
(* system store), SpecTamper (the Session Manager over session entries     *)
(* rewritten from outside), SpecCipher (AESGCM at the level of bytes),     *)
(* SpecFaults (the Session Manager over a store whose writes and deletes   *)
(* can fail), SpecAlias (SpecRace and an Unlock given an earlier slice).   *)
(***************************************************************************)
EXTENDS Integers, Sequences, FiniteSets, TLC

VARIABLES now, sys, secrets, vault, cfgSecs, out, heap, pc

vars == <<now, sys, secrets, vault, cfgSecs, out, heap, pc>>

(***************************************************************************)
(* Bounds of the model.                                                    *)
(***************************************************************************)
\* last instant of the clock, in ticks
MaxTime == 3
\* clock ticks per second: the clock is finer than the timeout's unit
TicksPerSec == 2
\* largest small timeout `config set autolock` is given
MaxAutoLock == 1
\* bytes of the key buffer followed one by one where calls on one Vault overlap
KeyBytes == 2

(***************************************************************************)
(* Program constants.                                                      *)
(***************************************************************************)
DefaultAutoLockSecs == 300
MaxAllowedAutoLock == 86400
VerificationTokenValue == [t |-> "str", s |-> "coconut-vault-v1-verification"]
saltKey == "salt"
verificationTokenKey == "vault_verification"
sessionDataKey == "session:data"
sessionKeyKey == "session:key"
configDataKey == "config:data"

(***************************************************************************)
(* Inputs.                                                                 *)
(***************************************************************************)
Passwords == {"correcthorse", "wrongpass"}
\* what the terminal read yields: a password, or a read error
ReadErr == "<read error>"
PromptInputs == Passwords \cup {ReadErr}
Salts == {"salt1"}
Nonces == {"n1"}
SessionKeyIds == {"sk1", "sk2"}
Ids == {"id1"}
Usernames == {"alice"}
AutoLockInputs == (0 .. MaxAutoLock) \cup {MaxAllowedAutoLock + 1}

NoErr == ""
Nil == [t |-> "nil"]
Absent == [t |-> "absent"]
\* bytes that are neither JSON nor base64 of a sealed box
Garbage == [t |-> "garbage"]
\* a stored value of length 0: Get returns it without an error
Empty == [t |-> "empty"]

(***************************************************************************)
(* Key derivation and keys.                                                *)
(***************************************************************************)
DeriveKey(password, salt) == [t |-> "key", pw |-> password, salt |-> salt]

\* a 32-byte key read from the random source
RandomKey(id) == [t |-> "skey", id |-> id]

\* a key of 30 bytes, as the session tests use: no AES key size
ShortKey == [t |-> "raw", len |-> 30]

KeyLen(k) ==
    CASE k.t = "key" -> 32
      [] k.t = "skey" -> 32
      [] k.t = "raw" -> k.len
      [] OTHER -> 0

(***************************************************************************)
(* AES-GCM strategy.                                                       *)
(***************************************************************************)
ValidKeySize(k) == KeyLen(k) \in {16, 24, 32}

AESEncrypt(key, plaintext, nonce) ==
    IF ~ValidKeySize(key)
    THEN [err |-> "crypto/aes: invalid key size", val |-> Nil]
    ELSE [err |-> NoErr,
          val |-> [t |-> "ct", k |-> key, n |-> nonce, pt |-> plaintext]]

\* the authentication tag not checked
AESDecryptNoAuth(key, encoded) ==
    IF encoded.t # "ct"
    THEN [err |-> "illegal base64 data", val |-> Nil]
    ELSE IF ~ValidKeySize(key)
    THEN [err |-> "crypto/aes: invalid key size", val |-> Nil]
    ELSE [err |-> NoErr, val |-> encoded.pt]

AESDecrypt(key, encoded) ==
    IF encoded.t # "ct"
    THEN [err |-> "illegal base64 data", val |-> Nil]
    ELSE IF ~ValidKeySize(key)
    THEN [err |-> "crypto/aes: invalid key size", val |-> Nil]
    ELSE IF encoded.k # key
    THEN [err |-> "cipher: message authentication failed", val |-> Nil]
    ELSE [err |-> NoErr, val |-> encoded.pt]

Base64Encode(bytes) == [t |-> "b64", of |-> bytes]

\* whatever was decrypted is taken for the key
Base64DecodeLenient(str) ==
    [err |-> NoErr, val |-> IF str.t = "b64" THEN str.of ELSE str]

Base64Decode(str) ==
    IF str.t = "b64"
    THEN [err |-> NoErr, val |-> str.of]
    ELSE [err |-> "illegal base64 data", val |-> Nil]

(***************************************************************************)
(* Vault.  A vault value is the object's fields; calls is the number of    *)
(* calls an operation made to the cipher strategy.                         *)
(***************************************************************************)
NewVault(salt) == [unlocked |-> FALSE, key |-> Nil, salt |-> salt]

\* the flag set without the key being installed
VaultUnlockFlagOnly(v, derivedKey) == [v EXCEPT !.unlocked = TRUE]

\* the key is copied: the Vault holds bytes of its own
VaultUnlockCopies(v, derivedKey) ==
    [v EXCEPT !.key = IF derivedKey.t = "ref" THEN [t |-> "copy"] ELSE derivedKey,
              !.unlocked = TRUE]

VaultUnlock(v, derivedKey) == [v EXCEPT !.key = derivedKey, !.unlocked = TRUE]

\* the vault left as it is
VaultLockNoop(v) == v

VaultLock(v) == [v EXCEPT !.unlocked = FALSE, !.key = Nil]

UnlockWithKey(salt, key) == VaultUnlock(NewVault(salt), key)

VaultEncryptNoGate(v, plaintext, nonce) ==
    LET r == AESEncrypt(v.key, plaintext, nonce)
    IN  [err |-> r.err, val |-> r.val, calls |-> 1]

VaultEncrypt(v, plaintext, nonce) ==
    IF ~v.unlocked
    THEN [err |-> "vault locked", val |-> Nil, calls |-> 0]
    ELSE LET r == AESEncrypt(v.key, plaintext, nonce)
         IN  [err |-> r.err, val |-> r.val, calls |-> 1]

VaultDecrypt(v, ciphertext) ==
    IF ~v.unlocked
    THEN [err |-> "vault locked", val |-> Nil, calls |-> 0]
    ELSE LET r == AESDecrypt(v.key, ciphertext)
         IN  [err |-> r.err, val |-> r.val, calls |-> 1]

CreateVerificationToken(v, nonce) ==
    IF ~v.unlocked
    THEN [err |-> "vault must be unlocked to create verification token",
          val |-> Nil, calls |-> 0]
    ELSE VaultEncrypt(v, VerificationTokenValue, nonce)

\* the comparison with the constant inverted
VerifyPasswordInverted(v, encryptedToken) ==
    IF ~v.unlocked
    THEN [err |-> "vault must be unlocked to verify password",
          val |-> Nil, calls |-> 0]
    ELSE LET d == VaultDecrypt(v, encryptedToken)
         IN  IF d.err # NoErr
             THEN [err |-> "incorrect master password",
                   val |-> Nil, calls |-> d.calls]
             ELSE IF d.val = VerificationTokenValue
             THEN [err |-> "vault verification failed - possible corruption",
                   val |-> Nil, calls |-> d.calls]
             ELSE [err |-> NoErr, val |-> Nil, calls |-> d.calls]

VerifyPassword(v, encryptedToken) ==
    IF ~v.unlocked
    THEN [err |-> "vault must be unlocked to verify password",
          val |-> Nil, calls |-> 0]
    ELSE LET d == VaultDecrypt(v, encryptedToken)
         IN  IF d.err # NoErr
             THEN [err |-> "incorrect master password",
                   val |-> Nil, calls |-> d.calls]
             ELSE IF d.val # VerificationTokenValue
             THEN [err |-> "vault verification failed - possible corruption",
                   val |-> Nil, calls |-> d.calls]
             ELSE [err |-> NoErr, val |-> Nil, calls |-> d.calls]

(***************************************************************************)
(* Bucketed key-value store: one function per bucket.                      *)
(***************************************************************************)
SysKeys == {saltKey, verificationTokenKey, sessionDataKey, sessionKeyKey,
            configDataKey}

RepoGet(bucket, key) ==
    IF bucket[key] = Absent
    THEN [err |-> "key not found", val |-> Nil]
    ELSE [err |-> NoErr, val |-> bucket[key]]

RepoPut(bucket, key, value) == [bucket EXCEPT ![key] = value]

\* nothing removed
RepoDeleteNoop(bucket, key) == bucket

RepoDelete(bucket, key) == [bucket EXCEPT ![key] = Absent]

RepoListKeys(bucket) == {k \in DOMAIN bucket : bucket[k] # Absent}

\* len(bytes) > 0: nil (a failed read) and a stored empty value have length 0
NonEmpty(val) == val # Nil /\ val # Empty

\* the read error is discarded: the salt, or nil, and never an error
LoadVaultConfig(system) == [err |-> NoErr, val |-> RepoGet(system, saltKey).val]

\* the salt alone decides
CheckVaultExistsSaltOnly(system) == NonEmpty(RepoGet(system, saltKey).val)

CheckVaultExists(system) ==
    /\ NonEmpty(RepoGet(system, saltKey).val)
    /\ NonEmpty(RepoGet(system, verificationTokenKey).val)

\* a token that cannot be read is an error
VerifyVaultPasswordFailClosed(system, v) ==
    LET g == RepoGet(system, verificationTokenKey)
    IN  IF g.err # NoErr
        THEN [err |-> "failed to read verification token", checked |-> FALSE]
        ELSE [err |-> VerifyPassword(v, g.val).err, checked |-> TRUE]

\* every key accepted
VerifyVaultPasswordFailOpen(system, v) == [err |-> NoErr, checked |-> FALSE]

VerifyVaultPassword(system, v) ==
    LET g == RepoGet(system, verificationTokenKey)
    IN  IF g.err # NoErr
        THEN [err |-> NoErr, checked |-> FALSE]
        ELSE [err |-> VerifyPassword(v, g.val).err, checked |-> TRUE]

(***************************************************************************)
(* Configuration: the one value read live is AutoLockSecs.                 *)
(***************************************************************************)
ConfigLoad(system) ==
    LET g == RepoGet(system, configDataKey)
    IN  IF g.err # NoErr \/ g.val.t # "config"
        THEN DefaultAutoLockSecs
        ELSE g.val.secs

ConfigSave(system, secs) ==
    RepoPut(system, configDataKey, [t |-> "config", secs |-> secs])

(***************************************************************************)
(* Session Manager.  system is the system bucket, cfg the live             *)
(* AutoLockSecs, t the reading of the clock.                               *)
(***************************************************************************)
saveSession(system, session) == RepoPut(system, sessionDataKey, session)

loadSession(system) ==
    LET g == RepoGet(system, sessionDataKey)
    IN  IF g.err # NoErr
        THEN [err |-> "failed to read session", val |-> Nil]
        ELSE IF g.val.t # "session"
        THEN [err |-> "failed to unmarshal session", val |-> Nil]
        ELSE [err |-> NoErr, val |-> g.val]

\* a session key already stored is not replaced
saveSessionKeyKeepOld(system, key) ==
    IF system[sessionKeyKey] # Absent
    THEN system
    ELSE RepoPut(system, sessionKeyKey, key)

saveSessionKey(system, key) == RepoPut(system, sessionKeyKey, key)

loadSessionKey(system) ==
    LET g == RepoGet(system, sessionKeyKey)
    IN  IF g.err # NoErr
        THEN [err |-> "failed to read session key", val |-> Nil]
        ELSE [err |-> NoErr, val |-> g.val]

\* the vault key stored base64-encoded, not encrypted
CreateSessionUnwrapped(system, cfg, t, vaultKey, skid, nonce) ==
    LET sessionKey == RandomKey(skid)
        session == [t |-> "session",
                    unlockedAt |-> t,
                    lastActivityAt |-> t,
                    timeoutSeconds |-> cfg,
                    encryptedKey |-> Base64Encode(vaultKey)]
    IN  [err |-> NoErr,
         system |-> saveSessionKey(saveSession(system, session), sessionKey)]

CreateSession(system, cfg, t, vaultKey, skid, nonce) ==
    LET sessionKey == RandomKey(skid)
        enc == AESEncrypt(sessionKey, Base64Encode(vaultKey), nonce)
        session == [t |-> "session",
                    unlockedAt |-> t,
                    lastActivityAt |-> t,
                    timeoutSeconds |-> cfg,
                    encryptedKey |-> enc.val]
    IN  IF enc.err # NoErr
        THEN [err |-> "failed to encrypt vault key", system |-> system]
        ELSE [err |-> NoErr,
              system |-> saveSessionKey(saveSession(system, session), sessionKey)]

\* the live configuration ignored
sessionTimeoutRecorded(session, cfg) == session.timeoutSeconds

\* the timeout IsValid and GetRemainingTime compare with, in seconds
sessionTimeoutSeconds(session, cfg) ==
    IF cfg > 0 /\ cfg < session.timeoutSeconds
    THEN cfg
    ELSE session.timeoutSeconds

\* a readable session never expires
IsValidNoExpiry(system, cfg, t) == loadSession(system).err = NoErr

\* the session is still valid at the instant the timeout is reached
IsValidInclusive(system, cfg, t) ==
    LET s == loadSession(system)
    IN  IF s.err # NoErr
        THEN FALSE
        ELSE LET elapsed == t - s.val.lastActivityAt
                 timeout == sessionTimeoutSeconds(s.val, cfg) * TicksPerSec
             IN  elapsed <= timeout

IsValid(system, cfg, t) ==
    LET s == loadSession(system)
    IN  IF s.err # NoErr
        THEN FALSE
        ELSE LET elapsed == t - s.val.lastActivityAt
                 timeout == sessionTimeoutSeconds(s.val, cfg) * TicksPerSec
             IN  elapsed < timeout

\* the session's start is moved along with its last activity
UpdateActivityRestarts(system, t) ==
    LET s == loadSession(system)
    IN  IF s.err # NoErr
        THEN [err |-> "no active session to update", system |-> system]
        ELSE [err |-> NoErr,
              system |-> saveSession(system, [s.val EXCEPT !.lastActivityAt = t,
                                                           !.unlockedAt = t])]

\* a missing session is created
UpdateActivityCreates(system, t) ==
    LET s == loadSession(system)
        fresh == [t |-> "session", unlockedAt |-> t, lastActivityAt |-> t,
                  timeoutSeconds |-> DefaultAutoLockSecs, encryptedKey |-> Garbage]
    IN  [err |-> NoErr,
         system |-> saveSession(system,
                        IF s.err # NoErr
                        THEN fresh
                        ELSE [s.val EXCEPT !.lastActivityAt = t])]

UpdateActivity(system, t) ==
    LET s == loadSession(system)
    IN  IF s.err # NoErr
        THEN [err |-> "no active session to update", system |-> system]
        ELSE [err |-> NoErr,
              system |-> saveSession(system, [s.val EXCEPT !.lastActivityAt = t])]

GetCachedKey(system, cfg, t) ==
    IF ~IsValid(system, cfg, t)
    THEN [err |-> "session expired or invalid", val |-> Nil]
    ELSE LET s == loadSession(system)
             k == loadSessionKey(system)
         IN  IF s.err # NoErr
             THEN [err |-> s.err, val |-> Nil]
             ELSE IF k.err # NoErr
             THEN [err |-> "failed to load session key", val |-> Nil]
             ELSE LET d == AESDecrypt(k.val, s.val.encryptedKey)
                  IN  IF d.err # NoErr
                      THEN [err |-> "failed to decrypt vault key", val |-> Nil]
                      ELSE LET b == Base64Decode(d.val)
                           IN  IF b.err # NoErr
                               THEN [err |-> "failed to decode vault key",
                                     val |-> Nil]
                               ELSE [err |-> NoErr, val |-> b.val]

\* nothing deleted
ClearNothing(system) == system

\* the session record left behind
ClearKeyOnly(system) == RepoDelete(system, sessionKeyKey)

\* the session key left behind
ClearDataOnly(system) == RepoDelete(system, sessionDataKey)

Clear(system) == RepoDelete(RepoDelete(system, sessionDataKey), sessionKeyKey)

\* the live configuration ignored
GetRemainingTimeRecorded(system, cfg, t) ==
    LET s == loadSession(system)
    IN  IF s.err # NoErr
        THEN 0
        ELSE LET elapsed == t - s.val.lastActivityAt
                 timeout == s.val.timeoutSeconds * TicksPerSec
             IN  IF timeout - elapsed < 0 THEN 0 ELSE timeout - elapsed

GetRemainingTime(system, cfg, t) ==
    LET s == loadSession(system)
    IN  IF s.err # NoErr
        THEN 0
        ELSE LET elapsed == t - s.val.lastActivityAt
                 timeout == sessionTimeoutSeconds(s.val, cfg) * TicksPerSec
             IN  IF timeout - elapsed < 0 THEN 0 ELSE timeout - elapsed

(***************************************************************************)
(* Encrypted Record Store over the secrets bucket.                         *)
(***************************************************************************)
JsonMarshal(record) == [t |-> "json", of |-> record]

\* text that is no JSON accepted as an empty record
JsonUnmarshalLenient(str) ==
    IF str.t = "json"
    THEN [err |-> NoErr, val |-> str.of]
    ELSE [err |-> NoErr, val |-> Nil]

JsonUnmarshal(str) ==
    IF str.t = "json"
    THEN [err |-> NoErr, val |-> str.of]
    ELSE [err |-> "unmarshal secret", val |-> Nil]

\* the serialized record stored as it is
EncAddPlain(bucket, v, secret, nonce) ==
    IF ~v.unlocked
    THEN [err |-> "vault is locked", bucket |-> bucket]
    ELSE [err |-> NoErr,
          bucket |-> RepoPut(bucket, secret.id, JsonMarshal(secret))]

\* an id already stored is refused
EncAddExclusive(bucket, v, secret, nonce) ==
    IF ~v.unlocked
    THEN [err |-> "vault is locked", bucket |-> bucket]
    ELSE IF bucket[secret.id] # Absent
    THEN [err |-> "secret already exists", bucket |-> bucket]
    ELSE LET enc == VaultEncrypt(v, JsonMarshal(secret), nonce)
         IN  IF enc.err # NoErr
             THEN [err |-> "encrypt secret", bucket |-> bucket]
             ELSE [err |-> NoErr, bucket |-> RepoPut(bucket, secret.id, enc.val)]

EncAdd(bucket, v, secret, nonce) ==
    IF ~v.unlocked
    THEN [err |-> "vault is locked", bucket |-> bucket]
    ELSE LET enc == VaultEncrypt(v, JsonMarshal(secret), nonce)
         IN  IF enc.err # NoErr
             THEN [err |-> "encrypt secret", bucket |-> bucket]
             ELSE [err |-> NoErr, bucket |-> RepoPut(bucket, secret.id, enc.val)]

\* the check of IsUnlocked left out
EncGetNoGate(bucket, v, key) ==
    LET g == RepoGet(bucket, key)
    IN  IF g.err # NoErr
        THEN [err |-> g.err, val |-> Nil]
        ELSE LET dec == VaultDecrypt(v, g.val)
             IN  IF dec.err # NoErr
                 THEN [err |-> "decrypt secret", val |-> Nil]
                 ELSE JsonUnmarshal(dec.val)

EncGet(bucket, v, key) ==
    IF ~v.unlocked
    THEN [err |-> "vault is locked", val |-> Nil]
    ELSE LET g == RepoGet(bucket, key)
         IN  IF g.err # NoErr
             THEN [err |-> g.err, val |-> Nil]
             ELSE LET dec == VaultDecrypt(v, g.val)
                  IN  IF dec.err # NoErr
                      THEN [err |-> "decrypt secret", val |-> Nil]
                      ELSE JsonUnmarshal(dec.val)

\* the record stored with the updatedAt it came with
EncUpdateStale(bucket, v, secret, nonce, t) ==
    IF ~v.unlocked
    THEN [err |-> "vault is locked", bucket |-> bucket]
    ELSE LET enc == VaultEncrypt(v, JsonMarshal(secret), nonce)
         IN  IF enc.err # NoErr
             THEN [err |-> "encrypt secret", bucket |-> bucket]
             ELSE [err |-> NoErr, bucket |-> RepoPut(bucket, secret.id, enc.val)]

\* secret.UpdatedAt = time.Now() before the record is serialized
EncUpdate(bucket, v, secret, nonce, t) ==
    IF ~v.unlocked
    THEN [err |-> "vault is locked", bucket |-> bucket]
    ELSE LET enc == VaultEncrypt(v, JsonMarshal([secret EXCEPT !.updatedAt = t]), nonce)
         IN  IF enc.err # NoErr
             THEN [err |-> "encrypt secret", bucket |-> bucket]
             ELSE [err |-> NoErr, bucket |-> RepoPut(bucket, secret.id, enc.val)]

\* Delete goes to the store without asking the vault; the bucket's Delete
\* returns nil whether or not the key was there
\* Delete made to ask the vault, with no vault at hand: refused
EncDeleteRefused(bucket, key) == [err |-> "vault is locked", bucket |-> bucket]

EncDelete(bucket, key) == [err |-> NoErr, bucket |-> RepoDelete(bucket, key)]

\* a bad entry skipped instead of reported
EncListSkipBad(bucket, v) ==
    LET keys == {k \in RepoListKeys(bucket) : EncGet(bucket, v, k).err = NoErr}
    IN  [err |-> NoErr, val |-> {EncGet(bucket, v, k).val : k \in keys}]

\* the records List returns, as a set: the order is the store's
EncList(bucket, v) ==
    LET keys == RepoListKeys(bucket)
    IN  IF \E k \in keys : EncGet(bucket, v, k).err # NoErr
        THEN [err |-> "failed to load secret", val |-> {}]
        ELSE [err |-> NoErr, val |-> {EncGet(bucket, v, k).val : k \in keys}]

(***************************************************************************)
(* EnsureVaultUnlocked, as a function of the factory's state and of what   *)
(* the run reads: the terminal (inp) and the random source (skid, nonce).  *)
(* The result holds what the run leaves: the error, the system bucket, the *)
(* factory's vault, the vault v it built, and where the key came from.     *)
(***************************************************************************)
EnsureVaultUnlocked(system, cfg, t, fvault, inp, skid, nonce) ==
    IF ~CheckVaultExists(system)
    THEN [err |-> "vault not initialized", system |-> system, vault |-> fvault,
          src |-> "none", key |-> Nil, verified |-> FALSE, vUnlocked |-> FALSE,
          prompted |-> FALSE]
    ELSE
    LET salt == RepoGet(system, saltKey)
        cached == GetCachedKey(system, cfg, t)
        useCache == cached.err = NoErr
    IN
    IF salt.err # NoErr
    THEN [err |-> "failed to retrieve vault salt", system |-> system,
          vault |-> fvault, src |-> "none", key |-> Nil, verified |-> FALSE,
          vUnlocked |-> FALSE, prompted |-> FALSE]
    ELSE IF ~useCache /\ inp = ReadErr
    THEN [err |-> "read password", system |-> Clear(system), vault |-> fvault,
          src |-> "none", key |-> Nil, verified |-> FALSE, vUnlocked |-> FALSE,
          prompted |-> TRUE]
    ELSE
    LET sys1 == IF useCache THEN UpdateActivity(system, t).system ELSE system
        vaultKey == IF useCache THEN cached.val ELSE DeriveKey(inp, salt.val)
        createSession == ~useCache
        src == IF useCache THEN "cache" ELSE "prompt"
        v == UnlockWithKey(salt.val, vaultKey)
        ver == VerifyVaultPassword(sys1, v)
    IN
    IF ver.err # NoErr
    THEN [err |-> "authentication failed", system |-> Clear(sys1),
          vault |-> fvault, src |-> src, key |-> vaultKey, verified |-> FALSE,
          vUnlocked |-> VaultLock(v).unlocked, prompted |-> createSession]
    ELSE
    LET sys2 == IF createSession
                THEN CreateSession(sys1, cfg, t, vaultKey, skid, nonce).system
                ELSE sys1
    IN  [err |-> NoErr, system |-> sys2, vault |-> v, src |-> src,
         key |-> vaultKey, verified |-> ver.checked, vUnlocked |-> v.unlocked,
         prompted |-> createSession]

(***************************************************************************)
(* The key buffer and the calls in progress on one Vault, for the          *)
(* specification in which calls overlap.  heap holds the bytes of the      *)
(* slice given to Unlock (1: the byte of the key, 0: zero); the Vault keeps *)
(* that slice, not a copy.  pc holds where each of the two goroutines is   *)
(* and its locals.                                                         *)
(***************************************************************************)
FreshKeyBuffer == [b \in 1 .. KeyBytes |-> 1]

NoCalls ==
    [locker |-> "idle", i |-> 0, held |-> FALSE, given |-> FALSE,
     relocked |-> FALSE,
     worker |-> "idle", op |-> "", wkey |-> Nil, wbytes |-> <<>>]

(***************************************************************************)
(* What the last operation returned and did.                               *)
(***************************************************************************)
NoOut(op) ==
    [op |-> op, err |-> NoErr, src |-> "none", key |-> Nil, inp |-> "",
     hadExpired |-> FALSE, verified |-> FALSE, vUnlocked |-> FALSE,
     recOp |-> FALSE, recErr |-> NoErr, calls |-> 0, val |-> Nil,
     arg |-> Nil, pre |-> Nil]

\* inp is what the terminal gave when the run prompted; hadExpired tells that
\* the run started with a readable session that was no longer valid
EnsureOut(op, r, inp, expired) ==
    [NoOut(op) EXCEPT !.err = r.err, !.src = r.src, !.key = r.key,
                      !.inp = IF r.prompted THEN inp ELSE "",
                      !.hadExpired = expired,
                      !.verified = r.verified, !.vUnlocked = r.vUnlocked]

SessionExpired(system, cfg, t) ==
    loadSession(system).err = NoErr /\ ~IsValid(system, cfg, t)

(***************************************************************************)
(* The state after factory.New on an empty store.                          *)
(***************************************************************************)
Init ==
    /\ now = 0
    /\ sys = [k \in SysKeys |-> Absent]
    /\ secrets = [k \in Ids |-> Absent]
    /\ vault = NewVault(Nil)
    /\ cfgSecs = DefaultAutoLockSecs
    /\ out = NoOut("new")
    /\ heap = FreshKeyBuffer
    /\ pc = NoCalls

(***************************************************************************)
(* Commands.                                                               *)
(***************************************************************************)
\* time passes
Tick ==
    /\ now < MaxTime
    /\ now' = now + 1
    /\ UNCHANGED <<sys, secrets, vault, cfgSecs, out, heap, pc>>

\* the next invocation of the program: factory.New
NewProcess ==
    /\ vault' = NewVault(Nil)
    /\ cfgSecs' = ConfigLoad(sys)
    /\ out' = NoOut("new")
    /\ UNCHANGED <<now, sys, secrets, heap, pc>>

\* coconut init
InitializeVault(p1, p2, saltId, nonce) ==
    LET existingSalt == RepoGet(sys, saltKey).val
        salt == [t |-> "salt", id |-> saltId]
        key == DeriveKey(p1, salt)
        v == VaultUnlock(NewVault(salt), key)
        token == CreateVerificationToken(v, nonce)
    IN  /\ IF NonEmpty(existingSalt)
           THEN /\ out' = [NoOut("init") EXCEPT !.err = "vault already initialized"]
                /\ sys' = sys
           ELSE IF p1 # p2
           THEN /\ out' = [NoOut("init") EXCEPT !.err = "passwords do not match"]
                /\ sys' = sys
           ELSE IF token.err # NoErr
           THEN /\ out' = [NoOut("init") EXCEPT
                              !.err = "failed to create verification token"]
                /\ sys' = sys
           ELSE /\ out' = NoOut("init")
                /\ sys' = ConfigSave(
                              RepoPut(RepoPut(sys, saltKey, salt),
                                      verificationTokenKey, token.val),
                              DefaultAutoLockSecs)
        /\ UNCHANGED <<now, secrets, vault, cfgSecs, heap, pc>>

\* coconut unlock
CmdUnlock(inp, skid, nonce) ==
    IF vault.unlocked /\ IsValid(sys, cfgSecs, now)
    THEN /\ out' = NoOut("unlock")
         /\ UNCHANGED <<now, sys, secrets, vault, cfgSecs, heap, pc>>
    ELSE LET r == EnsureVaultUnlocked(sys, cfgSecs, now, vault, inp, skid, nonce)
         IN  /\ sys' = r.system
             /\ vault' = r.vault
             /\ out' = EnsureOut("ensure", r, inp, SessionExpired(sys, cfgSecs, now))
             /\ UNCHANGED <<now, secrets, cfgSecs, heap, pc>>

\* coconut lock
CmdLock ==
    /\ sys' = Clear(sys)
    /\ vault' = IF vault.unlocked THEN VaultLock(vault) ELSE vault
    /\ out' = [NoOut("lock") EXCEPT
                  !.pre = [t |-> "before",
                           session |-> sys[sessionDataKey] # Absent,
                           unlocked |-> vault.unlocked]]
    /\ UNCHANGED <<now, secrets, cfgSecs, heap, pc>>

\* coconut config set autolock <seconds>
CmdConfigSet(seconds) ==
    IF seconds > MaxAllowedAutoLock
    THEN /\ out' = [NoOut("config") EXCEPT
                       !.err = "autolock timeout must be at most 86400 seconds"]
         /\ UNCHANGED <<now, sys, secrets, vault, cfgSecs, heap, pc>>
    ELSE /\ cfgSecs' = seconds
         /\ sys' = ConfigSave(sys, seconds)
         /\ out' = NoOut("config")
         /\ UNCHANGED <<now, secrets, vault, heap, pc>>

\* coconut add -u <username> -p <password>: the id is a fresh uuid
CmdAdd(inp, skid, nonce, id, username, nonce2) ==
    /\ secrets[id] = Absent
    /\ LET r == EnsureVaultUnlocked(sys, cfgSecs, now, vault, inp, skid, nonce)
           secret == [id |-> id, username |-> username,
                      createdAt |-> now, updatedAt |-> now]
           a == EncAdd(secrets, r.vault, secret, nonce2)
       IN  /\ sys' = r.system
           /\ vault' = r.vault
           /\ IF r.err # NoErr
              THEN /\ secrets' = secrets
                   /\ out' = EnsureOut("add", r, inp, SessionExpired(sys, cfgSecs, now))
              ELSE /\ secrets' = a.bucket
                   /\ out' = [EnsureOut("add", r, inp, SessionExpired(sys, cfgSecs, now)) EXCEPT
                                 !.recOp = TRUE, !.recErr = a.err]
    /\ UNCHANGED <<now, cfgSecs, heap, pc>>

\* coconut list
CmdList(inp, skid, nonce) ==
    LET r == EnsureVaultUnlocked(sys, cfgSecs, now, vault, inp, skid, nonce)
        l == EncList(secrets, r.vault)
    IN  /\ sys' = r.system
        /\ vault' = r.vault
        /\ out' = IF r.err # NoErr
                  THEN EnsureOut("list", r, inp, SessionExpired(sys, cfgSecs, now))
                  ELSE [EnsureOut("list", r, inp, SessionExpired(sys, cfgSecs, now)) EXCEPT
                           !.recOp = TRUE, !.recErr = l.err, !.val = l.val]
        /\ UNCHANGED <<now, secrets, cfgSecs, heap, pc>>

\* the stored session bytes are replaced by bytes that do not decode
CorruptSession ==
    /\ sys[sessionDataKey] # Absent
    /\ sys' = RepoPut(sys, sessionDataKey, Garbage)
    /\ out' = NoOut("corrupt")
    /\ UNCHANGED <<now, secrets, vault, cfgSecs, heap, pc>>

Next ==
    \/ Tick
    \/ NewProcess
    \/ \E p1, p2 \in Passwords, s \in Salts, n \in Nonces :
           InitializeVault(p1, p2, s, n)
    \/ \E inp \in PromptInputs, k \in SessionKeyIds, n \in Nonces :
           CmdUnlock(inp, k, n)
    \/ CmdLock
    \/ \E secs \in AutoLockInputs : CmdConfigSet(secs)
    \/ \E inp \in PromptInputs, k \in SessionKeyIds, n \in Nonces,
          id \in Ids, u \in Usernames, n2 \in Nonces :
           CmdAdd(inp, k, n, id, u, n2)
    \/ \E inp \in PromptInputs, k \in SessionKeyIds, n \in Nonces :
           CmdList(inp, k, n)
    \/ CorruptSession

Spec == Init /\ [][Next]_vars

(***************************************************************************)
(* The Vault driven directly through its API, with arbitrary arguments.    *)
(***************************************************************************)
ApiSalt == [t |-> "salt", id |-> "salt1"]
ApiKeys == {DeriveKey(p, ApiSalt) : p \in Passwords} \cup {RandomKey("sk1"), ShortKey, Nil}
ApiNonces == {"n1", "n2"}
ApiPlaintexts ==
    {VerificationTokenValue, [t |-> "str", s |-> ""],
     [t |-> "str", s |-> "hello world"]}
ApiCiphertexts ==
    {AESEncrypt(DeriveKey(p, ApiSalt), pt, "n1").val :
        p \in Passwords, pt \in ApiPlaintexts} \cup {Garbage}

\* in this specification out.key remembers the argument of the latest Unlock
\* or UnlockWithKey on the vault
ApiOut(op, r) ==
    [NoOut(op) EXCEPT !.err = r.err, !.val = r.val, !.calls = r.calls,
                      !.key = out.key]

ApiNewVault ==
    /\ vault' = NewVault(ApiSalt)
    /\ out' = NoOut("NewVault")
    /\ UNCHANGED <<now, sys, secrets, cfgSecs, heap, pc>>

ApiUnlock(k) ==
    /\ vault' = VaultUnlock(vault, k)
    /\ out' = [NoOut("Unlock") EXCEPT !.key = k]
    /\ UNCHANGED <<now, sys, secrets, cfgSecs, heap, pc>>

ApiUnlockWithKey(k) ==
    /\ vault' = UnlockWithKey(ApiSalt, k)
    /\ out' = [NoOut("UnlockWithKey") EXCEPT !.key = k]
    /\ UNCHANGED <<now, sys, secrets, cfgSecs, heap, pc>>

ApiLock ==
    /\ vault' = VaultLock(vault)
    /\ out' = [NoOut("Lock") EXCEPT !.key = out.key]
    /\ UNCHANGED <<now, sys, secrets, cfgSecs, heap, pc>>

ApiEncrypt(pt, n) ==
    /\ out' = ApiOut("Encrypt", VaultEncrypt(vault, pt, n))
    /\ UNCHANGED <<now, sys, secrets, vault, cfgSecs, heap, pc>>

ApiDecrypt(ct) ==
    /\ out' = ApiOut("Decrypt", VaultDecrypt(vault, ct))
    /\ UNCHANGED <<now, sys, secrets, vault, cfgSecs, heap, pc>>

ApiCreateVerificationToken(n) ==
    /\ out' = ApiOut("CreateVerificationToken", CreateVerificationToken(vault, n))
    /\ UNCHANGED <<now, sys, secrets, vault, cfgSecs, heap, pc>>

ApiVerifyPassword(tok) ==
    /\ out' = [ApiOut("VerifyPassword", VerifyPassword(vault, tok)) EXCEPT !.arg = tok]
    /\ UNCHANGED <<now, sys, secrets, vault, cfgSecs, heap, pc>>

NextVault ==
    \/ ApiNewVault
    \/ \E k \in ApiKeys : ApiUnlock(k)
    \/ \E k \in ApiKeys : ApiUnlockWithKey(k)
    \/ ApiLock
    \/ \E pt \in ApiPlaintexts, n \in ApiNonces : ApiEncrypt(pt, n)
    \/ \E ct \in ApiCiphertexts : ApiDecrypt(ct)
    \/ \E n \in ApiNonces : ApiCreateVerificationToken(n)
    \/ \E tok \in ApiCiphertexts : ApiVerifyPassword(tok)

SpecVault == Init /\ [][NextVault]_vars

(***************************************************************************)
(* The Encrypted Record Store driven directly through its API over the     *)
(* bucketed store, with a vault the caller unlocks and locks.              *)
(***************************************************************************)
MaxRepoTime == 1

RepoIds == {"id1", "id2"}
RepoKey == DeriveKey("correcthorse", ApiSalt)
OtherKey == DeriveKey("wrongpass", ApiSalt)
NotJson == [t |-> "str", s |-> "not json"]
\* what a writer that bypasses the Encrypted Record Store can leave in the
\* bucket: bytes that are no ciphertext, a ciphertext under another key, a
\* ciphertext of text that is no JSON
BadEntries ==
    {Garbage,
     AESEncrypt(OtherKey, JsonMarshal([id |-> "id1", username |-> "alice",
                                       createdAt |-> 0, updatedAt |-> 0]), "n1").val,
     AESEncrypt(RepoKey, NotJson, "n1").val}

InitRepo ==
    /\ now = 0
    /\ sys = [k \in SysKeys |-> Absent]
    /\ secrets = [k \in RepoIds |-> Absent]
    /\ vault = NewVault(ApiSalt)
    /\ cfgSecs = DefaultAutoLockSecs
    /\ out = NoOut("new")
    /\ heap = FreshKeyBuffer
    /\ pc = NoCalls

\* out.pre is what was stored under the operation's key before it ran
RsOut(op, err, val, arg) == [NoOut(op) EXCEPT !.err = err, !.val = val, !.arg = arg]

RsTick ==
    /\ now < MaxRepoTime
    /\ now' = now + 1
    /\ out' = NoOut("Tick")
    /\ UNCHANGED <<sys, secrets, vault, cfgSecs, heap, pc>>

RsUnlock(k) ==
    /\ vault' = VaultUnlock(vault, k)
    /\ out' = NoOut("Unlock")
    /\ UNCHANGED <<now, sys, secrets, cfgSecs, heap, pc>>

RsLock ==
    /\ vault' = VaultLock(vault)
    /\ out' = NoOut("Lock")
    /\ UNCHANGED <<now, sys, secrets, cfgSecs, heap, pc>>

RsAdd(id, username, nonce) ==
    LET secret == [id |-> id, username |-> username,
                   createdAt |-> now, updatedAt |-> now]
        r == EncAdd(secrets, vault, secret, nonce)
    IN  /\ secrets' = r.bucket
        /\ out' = [RsOut("Add", r.err,
                         IF r.err = NoErr THEN [t |-> "id", id |-> id] ELSE Nil,
                         secret) EXCEPT !.pre = secrets[id]]
        /\ UNCHANGED <<now, sys, vault, cfgSecs, heap, pc>>

RsGet(id) ==
    LET r == EncGet(secrets, vault, id)
    IN  /\ out' = RsOut("Get", r.err, r.val, [t |-> "id", id |-> id])
        /\ UNCHANGED <<now, sys, secrets, vault, cfgSecs, heap, pc>>

RsUpdate(id, username, nonce) ==
    LET secret == [id |-> id, username |-> username,
                   createdAt |-> 0, updatedAt |-> 0]
        r == EncUpdate(secrets, vault, secret, nonce, now)
    IN  /\ secrets' = r.bucket
        /\ out' = [RsOut("Update", r.err, Nil, secret) EXCEPT !.pre = secrets[id]]
        /\ UNCHANGED <<now, sys, vault, cfgSecs, heap, pc>>

RsDelete(id) ==
    LET r == EncDelete(secrets, id)
    IN  /\ secrets' = r.bucket
        /\ out' = [RsOut("Delete", r.err, Nil, [t |-> "id", id |-> id]) EXCEPT
                      !.pre = secrets[id]]
        /\ UNCHANGED <<now, sys, vault, cfgSecs, heap, pc>>

RsList ==
    LET r == EncList(secrets, vault)
    IN  /\ out' = RsOut("List", r.err, r.val, Nil)
        /\ UNCHANGED <<now, sys, secrets, vault, cfgSecs, heap, pc>>

\* a write to the bucket that does not go through the Encrypted Record Store
RsRawPut(id, value) ==
    /\ secrets' = RepoPut(secrets, id, value)
    /\ out' = NoOut("RawPut")
    /\ UNCHANGED <<now, sys, vault, cfgSecs, heap, pc>>

NextRepo ==
    \/ RsTick
    \/ \E k \in {RepoKey, ShortKey} : RsUnlock(k)
    \/ RsLock
    \/ \E id \in RepoIds, u \in {"alice", "bob"}, n \in Nonces : RsAdd(id, u, n)
    \/ \E id \in RepoIds : RsGet(id)
    \/ \E id \in RepoIds, u \in {"alice", "bob"}, n \in Nonces : RsUpdate(id, u, n)
    \/ \E id \in RepoIds : RsDelete(id)
    \/ RsList
    \/ \E id \in RepoIds, b \in BadEntries : RsRawPut(id, b)

SpecRepo == InitRepo /\ [][NextRepo]_vars

(***************************************************************************)
(* One Vault shared by two goroutines: one calls Lock, the other Encrypt   *)
(* or Decrypt.  The Vault has no mutex, so every read and write of its     *)
(* fields and of the key bytes is a step of its own.  vault.key is the     *)
(* slice the Vault holds: KeyRef (the buffer in heap) or Nil.              *)
(***************************************************************************)
KeyRef == [t |-> "ref"]

Returned(p) == p \in {"idle", "returned"}

\* v.key[i] = 0
ZeroByteNot(h, i) == h

ZeroByte(h, i) == [h EXCEPT ![i] = 0]

InitRace ==
    /\ now = 0
    /\ sys = [k \in SysKeys |-> Absent]
    /\ secrets = [k \in Ids |-> Absent]
    /\ vault = NewVault(ApiSalt)
    /\ cfgSecs = DefaultAutoLockSecs
    /\ out = NoOut("new")
    /\ heap = FreshKeyBuffer
    /\ pc = NoCalls

\* Unlock with a freshly made key, while no other call is in progress
RcUnlock ==
    /\ Returned(pc.locker) /\ Returned(pc.worker)
    /\ heap' = FreshKeyBuffer
    /\ vault' = VaultUnlock(vault, KeyRef)
    /\ pc' = [NoCalls EXCEPT !.given = TRUE]
    /\ out' = NoOut("Unlock")
    /\ UNCHANGED <<now, sys, secrets, cfgSecs>>

\* Lock: v.unlocked = false
RcLockStart ==
    /\ Returned(pc.locker)
    /\ vault' = [vault EXCEPT !.unlocked = FALSE]
    /\ pc' = [pc EXCEPT !.locker = "checkKey", !.relocked = ~vault.unlocked]
    /\ UNCHANGED <<now, sys, secrets, cfgSecs, out, heap>>

\* Lock: if v.key != nil
RcLockCheck ==
    /\ pc.locker = "checkKey"
    /\ pc' = IF vault.key # Nil
             THEN [pc EXCEPT !.locker = "zero", !.i = 1, !.held = TRUE]
             ELSE [pc EXCEPT !.locker = "drop", !.held = FALSE]
    /\ UNCHANGED <<now, sys, secrets, vault, cfgSecs, out, heap>>

\* Lock: for i := range v.key { v.key[i] = 0 }; the bytes written are the
\* caller's when v.key is the caller's slice
RcLockZero ==
    /\ pc.locker = "zero"
    /\ heap' = IF vault.key = KeyRef THEN ZeroByte(heap, pc.i) ELSE heap
    /\ pc' = IF pc.i = KeyBytes
             THEN [pc EXCEPT !.locker = "drop"]
             ELSE [pc EXCEPT !.i = pc.i + 1]
    /\ UNCHANGED <<now, sys, secrets, vault, cfgSecs, out>>

\* Lock: v.key = nil, and the call returns
RcLockDrop ==
    /\ pc.locker = "drop"
    /\ vault' = [vault EXCEPT !.key = Nil]
    /\ pc' = [pc EXCEPT !.locker = "returned"]
    /\ UNCHANGED <<now, sys, secrets, cfgSecs, out, heap>>

\* Encrypt or Decrypt: if !v.unlocked { return "", errors.New("vault locked") }
RcCallStart(op) ==
    /\ Returned(pc.worker)
    /\ IF ~vault.unlocked
       THEN /\ pc' = [pc EXCEPT !.worker = "returned", !.op = op,
                                !.wkey = Nil, !.wbytes = <<>>]
            /\ out' = [NoOut(op) EXCEPT !.err = "vault locked"]
       ELSE /\ pc' = [pc EXCEPT !.worker = "loadKey", !.op = op,
                                !.wkey = Nil, !.wbytes = <<>>]
            /\ out' = out
    /\ UNCHANGED <<now, sys, secrets, vault, cfgSecs, heap>>

\* the argument v.key of v.strategy.Encrypt(v.key, ...) is read
RcLoadKey ==
    /\ pc.worker = "loadKey"
    /\ pc' = [pc EXCEPT !.worker = "cipher", !.wkey = vault.key]
    /\ UNCHANGED <<now, sys, secrets, vault, cfgSecs, out, heap>>

\* aes.NewCipher(key): a nil key is refused, otherwise the bytes are read
RcCipher ==
    /\ pc.worker = "cipher"
    /\ IF pc.wkey = Nil
       THEN /\ pc' = [pc EXCEPT !.worker = "returned"]
            /\ out' = [NoOut(pc.op) EXCEPT
                           !.err = "crypto/aes: invalid key size",
                           !.calls = 1, !.arg = Nil]
       ELSE LET bytes == Append(pc.wbytes, heap[Len(pc.wbytes) + 1])
            IN  IF Len(bytes) < KeyBytes
                THEN /\ pc' = [pc EXCEPT !.wbytes = bytes]
                     /\ out' = out
                ELSE /\ pc' = [pc EXCEPT !.worker = "returned", !.wbytes = bytes]
                     /\ out' = [NoOut(pc.op) EXCEPT
                                    !.calls = 1,
                                    !.arg = [t |-> "bytes", of |-> bytes]]
    /\ UNCHANGED <<now, sys, secrets, vault, cfgSecs, heap>>

NextRace ==
    \/ RcUnlock
    \/ RcLockStart
    \/ RcLockCheck
    \/ RcLockZero
    \/ RcLockDrop
    \/ \E op \in {"Encrypt", "Decrypt"} : RcCallStart(op)
    \/ RcLoadKey
    \/ RcCipher

SpecRace == InitRace /\ [][NextRace]_vars

(***************************************************************************)
(* The Session Manager driven directly through its API, as its tests do:   *)
(* any bytes serve as the vault key, the live configuration changes under  *)
(* it.  In this specification out.key remembers the key of the latest      *)
(* successful CreateSession and out.arg the key of the one before.         *)
(***************************************************************************)
SmVaultKeys == {RepoKey, OtherKey, ShortKey}

SmOut(op, err, val) ==
    [NoOut(op) EXCEPT !.err = err, !.val = val, !.key = out.key, !.arg = out.arg]

SmTick ==
    /\ now < MaxTime
    /\ now' = now + 1
    /\ out' = SmOut("Tick", NoErr, Nil)
    /\ UNCHANGED <<sys, secrets, vault, cfgSecs, heap, pc>>

SmSetConfig(secs) ==
    /\ cfgSecs' = secs
    /\ out' = SmOut("SetConfig", NoErr, Nil)
    /\ UNCHANGED <<now, sys, secrets, vault, heap, pc>>

SmCreateSession(vaultKey, skid, nonce) ==
    LET r == CreateSession(sys, cfgSecs, now, vaultKey, skid, nonce)
    IN  /\ sys' = r.system
        /\ out' = IF r.err = NoErr
                  THEN [SmOut("CreateSession", r.err, Nil) EXCEPT
                           !.key = vaultKey, !.arg = out.key]
                  ELSE SmOut("CreateSession", r.err, Nil)
        /\ UNCHANGED <<now, secrets, vault, cfgSecs, heap, pc>>

SmGetCachedKey ==
    LET r == GetCachedKey(sys, cfgSecs, now)
    IN  /\ out' = SmOut("GetCachedKey", r.err, r.val)
        /\ UNCHANGED <<now, sys, secrets, vault, cfgSecs, heap, pc>>

SmUpdateActivity ==
    LET r == UpdateActivity(sys, now)
    IN  /\ sys' = r.system
        /\ out' = SmOut("UpdateActivity", r.err, Nil)
        /\ UNCHANGED <<now, secrets, vault, cfgSecs, heap, pc>>

SmClear ==
    /\ sys' = Clear(sys)
    /\ out' = [SmOut("Clear", NoErr, Nil) EXCEPT !.pre = sys]
    /\ UNCHANGED <<now, secrets, vault, cfgSecs, heap, pc>>

\* the stored session bytes are replaced by bytes that do not decode
SmCorrupt ==
    /\ sys[sessionDataKey] # Absent
    /\ sys' = RepoPut(sys, sessionDataKey, Garbage)
    /\ out' = SmOut("Corrupt", NoErr, Nil)
    /\ UNCHANGED <<now, secrets, vault, cfgSecs, heap, pc>>

NextSession ==
    \/ SmTick
    \/ \E secs \in (0 .. MaxAutoLock) \cup {DefaultAutoLockSecs} : SmSetConfig(secs)
    \/ \E k \in SmVaultKeys, id \in SessionKeyIds, n \in Nonces :
           SmCreateSession(k, id, n)
    \/ SmGetCachedKey
    \/ SmUpdateActivity
    \/ SmClear
    \/ SmCorrupt

SpecSession == Init /\ [][NextSession]_vars

(***************************************************************************)
(* Properties.                                                             *)
(***************************************************************************)
CipherOps == {"Encrypt", "Decrypt", "CreateVerificationToken", "VerifyPassword"}

\* C1: on a locked vault (new, or locked again after any Unlock/Lock calls)
\* Encrypt, Decrypt, CreateVerificationToken and VerifyPassword each return
\* an error for every input and make no call to the cipher strategy.
C1_LockGating ==
    (~vault.unlocked /\ out.op \in CipherOps) =>
        (out.err # NoErr /\ out.calls = 0 /\ out.val = Nil)

C1_Witness ==
    /\ ~vault.unlocked
    /\ out.op = "VerifyPassword"
    /\ out.err # NoErr
    /\ out.calls = 0

(***************************************************************************)
(* The command flow.                                                       *)
(***************************************************************************)
EnsureOps == {"ensure", "add", "list"}

\* a step of a command that ran EnsureVaultUnlocked; out' is what it returned
EnsureStep == now' = now /\ out'.op \in EnsureOps

StoredSession == sys[sessionDataKey]

HasSession == StoredSession.t = "session"

\* ticks since the stored session's lastActivityAt
Elapsed == now - StoredSession.lastActivityAt

MinInt(a, b) == IF a < b THEN a ELSE b

\* key k decrypts the stored verification token to the constant
VerifiesToken(k) ==
    LET tok == sys[verificationTokenKey]
    IN  tok.t = "ct" /\ tok.k = k /\ tok.pt = VerificationTokenValue

\* the timeout the session is held against, in ticks
EffectiveTimeout ==
    (IF cfgSecs > 0
     THEN MinInt(StoredSession.timeoutSeconds, cfgSecs)
     ELSE StoredSession.timeoutSeconds) * TicksPerSec

\* C2: a command that starts when the time since the session's
\* lastActivityAt has reached the effective timeout never takes the key from
\* the session cache: it derives the key from an entered password that passes
\* verification, or it fails and performs no record operation.
C2_ExpiredNoCache ==
    [][(HasSession /\ Elapsed >= EffectiveTimeout /\ EnsureStep) =>
           /\ out'.src # "cache"
           /\ \/ /\ out'.err = NoErr
                 /\ out'.src = "prompt"
                 /\ out'.inp \in Passwords
                 /\ out'.key = DeriveKey(out'.inp, sys[saltKey])
                 /\ out'.verified
                 /\ VerifiesToken(out'.key)
              \/ /\ out'.err # NoErr
                 /\ ~out'.recOp
                 /\ secrets' = secrets]_vars

C2_Witness ==
    /\ out.op = "add"
    /\ cfgSecs > 0
    /\ now >= cfgSecs * TicksPerSec
    /\ out.hadExpired
    /\ out.src = "prompt"
    /\ out.err = NoErr
    /\ out.recOp

\* C3: the factory's vault is unlocked, and a session exists, only with a key
\* whose verification against the stored token succeeded: in no state is the
\* factory's vault unlocked with, or a session wrapping, a key that does not
\* decrypt the stored verification token.
C3_VerifiedBeforeUnlock ==
    /\ vault.unlocked => VerifiesToken(vault.key)
    /\ HasSession =>
           /\ StoredSession.encryptedKey.t = "ct"
           /\ StoredSession.encryptedKey.pt.t = "b64"
           /\ VerifiesToken(StoredSession.encryptedKey.pt.of)
    /\ (out.op \in EnsureOps /\ out.err = NoErr) =>
           (out.verified /\ VerifiesToken(out.key) /\ vault.key = out.key)

C3_Witness ==
    /\ vault.unlocked
    /\ HasSession
    /\ out.op \in EnsureOps
    /\ out.src = "cache"
    /\ out.verified

\* C4: when the key derived from the entered password fails verification,
\* EnsureVaultUnlocked returns an authentication error, the vault it built is
\* locked, the factory's vault and record store are not replaced, and neither
\* the session record nor the session key is stored afterwards.
C4_WrongPassword ==
    [][(EnsureStep /\ out'.src = "prompt" /\ ~VerifiesToken(out'.key)) =>
           /\ out'.err = "authentication failed"
           /\ ~out'.vUnlocked
           /\ ~out'.recOp
           /\ vault' = vault
           /\ secrets' = secrets
           /\ sys'[sessionDataKey] = Absent
           /\ sys'[sessionKeyKey] = Absent
           /\ ~IsValid(sys', cfgSecs', now')
           /\ GetCachedKey(sys', cfgSecs', now').err # NoErr]_vars

C4_Witness ==
    /\ out.op \in EnsureOps
    /\ out.src = "prompt"
    /\ out.hadExpired
    /\ out.err = "authentication failed"
    /\ ~VerifiesToken(out.key)
    /\ vault.unlocked
    /\ sys[sessionKeyKey] = Absent

\* the vault was created by InitializeVault with password p
InitializedWith(p) ==
    /\ sys[saltKey] # Absent
    /\ VerifiesToken(DeriveKey(p, sys[saltKey]))

\* C5: once InitializeVault has created the vault with password p, every run
\* of EnsureVaultUnlocked that is given p when it prompts succeeds, with or
\* without a session: the factory's vault is unlocked with the key derived
\* from p and the stored salt.
C5_SamePasswordUnlocks ==
    [][\A p \in Passwords :
          (InitializedWith(p) /\ EnsureStep /\ out'.inp \in {"", p}) =>
              /\ out'.err = NoErr
              /\ out'.verified
              /\ vault'.unlocked
              /\ vault'.key = DeriveKey(p, sys[saltKey])
              /\ out'.recOp => out'.recErr = NoErr]_vars

C5_Witness ==
    /\ out.op = "list"
    /\ out.src = "cache"
    /\ out.err = NoErr
    /\ out.recOp
    /\ out.val # {}
    /\ InitializedWith("correcthorse")
    /\ vault.key = DeriveKey("correcthorse", sys[saltKey])

\* C6: after EnsureVaultUnlocked succeeded with an entered password, the next
\* run that starts while the user is still active (before the configured
\* timeout has elapsed since the last activity, or at any time when the
\* timeout is configured as 0) takes the same key from the session cache and
\* does not prompt.
C6_ActiveUsesCache ==
    [][(/\ out.op \in EnsureOps
        /\ out.err = NoErr
        /\ out.src = "prompt"
        /\ HasSession
        /\ \/ cfgSecs = 0
           \/ cfgSecs > 0 /\ Elapsed < cfgSecs * TicksPerSec
        /\ EnsureStep) =>
           /\ out'.src = "cache"
           /\ out'.inp = ""
           /\ out'.err = NoErr
           /\ out'.key = out.key]_vars

\* the part of C6 that is about a positive timeout
C6_ActiveUsesCachePositive ==
    [][(/\ out.op \in EnsureOps
        /\ out.err = NoErr
        /\ out.src = "prompt"
        /\ HasSession
        /\ cfgSecs > 0 /\ Elapsed < cfgSecs * TicksPerSec
        /\ EnsureStep) =>
           /\ out'.src = "cache"
           /\ out'.inp = ""
           /\ out'.err = NoErr
           /\ out'.key = out.key]_vars

\* C7: a session recorded with timeout T > 0, the live configuration being T
\* too, is valid exactly while less than T has elapsed since lastActivityAt;
\* once it is invalid GetCachedKey fails; the passing of time deletes nothing
\* from the store.
C7_Expiry ==
    /\ [](( /\ HasSession
            /\ StoredSession.timeoutSeconds > 0
            /\ cfgSecs = StoredSession.timeoutSeconds) =>
              /\ IsValid(sys, cfgSecs, now) <=>
                     Elapsed < StoredSession.timeoutSeconds * TicksPerSec
              /\ Elapsed >= StoredSession.timeoutSeconds * TicksPerSec =>
                     GetCachedKey(sys, cfgSecs, now).err # NoErr)
    /\ [][now' # now => sys' = sys]_vars

C7_Witness ==
    /\ HasSession
    /\ StoredSession.timeoutSeconds > 0
    /\ cfgSecs = StoredSession.timeoutSeconds
    /\ Elapsed = StoredSession.timeoutSeconds * TicksPerSec
    /\ ~IsValid(sys, cfgSecs, now)
    /\ GetCachedKey(sys, cfgSecs, now).err # NoErr
    /\ sys[sessionKeyKey] # Absent

\* C8: when the live AutoLockSecs is 0, IsValid is true for every stored,
\* readable session at every time, whatever timeout the session recorded, and
\* GetCachedKey returns the key.
C8_ZeroDisablesExpiry ==
    (cfgSecs = 0 /\ HasSession /\ sys[sessionKeyKey] # Absent) =>
        /\ IsValid(sys, cfgSecs, now)
        /\ GetCachedKey(sys, cfgSecs, now).err = NoErr

C9_WitnessRaised ==
    /\ HasSession
    /\ StoredSession.timeoutSeconds > 0
    /\ cfgSecs > StoredSession.timeoutSeconds
    /\ Elapsed >= StoredSession.timeoutSeconds * TicksPerSec
    /\ Elapsed < cfgSecs * TicksPerSec
    /\ ~IsValid(sys, cfgSecs, now)

(***************************************************************************)
(* What the backing store reveals.                                         *)
(***************************************************************************)
VaultKeys ==
    {DeriveKey(p, [t |-> "salt", id |-> s]) : p \in Passwords, s \in Salts}

StoredValues == {sys[k] : k \in SysKeys} \cup {secrets[i] : i \in Ids}

\* what can be computed from the terms of K in n rounds: the fields of a
\* session record, the plaintext of a ciphertext whose key is known, the
\* bytes a base64 string encodes
RECURSIVE Derivable(_, _)
Derivable(K, n) ==
    IF n = 0
    THEN K
    ELSE Derivable(K \cup {x.encryptedKey : x \in {y \in K : y.t = "session"}}
                     \cup {x.pt : x \in {y \in K : y.t = "ct" /\ y.k \in K}}
                     \cup {x.of : x \in {y \in K : y.t = "b64"}},
                   n - 1)

\* C10: the vault key is never in the backing store raw or base64-encoded:
\* the session record holds the encryption of base64(vaultKey) under the
\* random session key, the session key is stored under another storage key,
\* and the vault key cannot be computed from the session record alone.
C10_KeyWrapped ==
    /\ \A v \in StoredValues : v \notin VaultKeys /\ v.t # "b64"
    /\ sessionKeyKey # sessionDataKey
    /\ HasSession =>
           LET e == StoredSession.encryptedKey
           IN  /\ e.t = "ct"
               /\ e.k.t = "skey"
               /\ \E k \in VaultKeys : e.pt = Base64Encode(k)
               /\ sys[sessionKeyKey] # Absent => sys[sessionKeyKey] = e.k
               /\ VaultKeys \cap Derivable({StoredSession}, 4) = {}
               /\ sys[sessionKeyKey] # Absent =>
                      e.pt.of \in Derivable({StoredSession, sys[sessionKeyKey]}, 4)

C10_Witness ==
    /\ HasSession
    /\ sys[sessionKeyKey] # Absent
    /\ vault.unlocked
    /\ vault.key \in Derivable({StoredSession, sys[sessionKeyKey]}, 4)
    /\ vault.key \notin Derivable(StoredValues \ {sys[sessionKeyKey]}, 4)

\* C11: every value Add or Update writes to the secrets bucket is the
\* vault's encryption, under the key the vault holds, of the JSON
\* serialization of the record (for Update: with updatedAt refreshed), and it
\* is written under the record's own id; nothing else in the bucket changes
\* and no serialized record reaches the store unencrypted.
C11_StoredEncrypted ==
    [][out'.op \in {"Add", "Update"} =>
        LET rec == IF out'.op = "Add"
                   THEN out'.arg
                   ELSE [out'.arg EXCEPT !.updatedAt = now]
        IN  /\ \A k \in RepoIds :
                  secrets'[k] # secrets[k] =>
                      /\ k = rec.id
                      /\ secrets'[k].t = "ct"
                      /\ secrets'[k].k = vault.key
                      /\ secrets'[k].pt = JsonMarshal(rec)
            /\ out'.err = NoErr =>
                  /\ secrets'[rec.id].t = "ct"
                  /\ secrets'[rec.id].k = vault.key
                  /\ secrets'[rec.id].pt = JsonMarshal(rec)]_vars

C11_Witness ==
    /\ out.op = "Update"
    /\ out.err = NoErr
    /\ now > 0
    /\ secrets[out.arg.id].t = "ct"
    /\ secrets[out.arg.id].k = vault.key
    /\ secrets[out.arg.id].pt = JsonMarshal([out.arg EXCEPT !.updatedAt = now])
    /\ \E k \in RepoIds : k # out.arg.id /\ secrets[k] # Absent

\* C12: for a vault unlocked with key K, VerifyPassword(token) succeeds
\* exactly when the token decrypts under K to the verification constant: a
\* token CreateVerificationToken makes under K is accepted, a token made
\* under another key is rejected as an incorrect password, and a token that
\* decrypts under K to another string is rejected as verification corrupted.
C12_VerifyPassword ==
    (out.op = "VerifyPassword" /\ vault.unlocked) =>
        LET tok == out.arg
            K == vault.key
            opens == tok.t = "ct" /\ ValidKeySize(K) /\ tok.k = K
        IN  /\ out.err = NoErr <=> (opens /\ tok.pt = VerificationTokenValue)
            /\ \A n \in ApiNonces :
                   LET c == CreateVerificationToken(vault, n)
                   IN  (c.err = NoErr /\ c.val = tok) => out.err = NoErr
            /\ (tok.t = "ct" /\ tok.k # K) =>
                   out.err = "incorrect master password"
            /\ (opens /\ tok.pt # VerificationTokenValue) =>
                   out.err = "vault verification failed - possible corruption"

\* a token made under another key has just been rejected
C12_Witness ==
    /\ out.op = "VerifyPassword"
    /\ vault.unlocked
    /\ ValidKeySize(vault.key)
    /\ out.arg.t = "ct"
    /\ out.arg.k # vault.key
    /\ out.arg.pt = VerificationTokenValue
    /\ out.err = "incorrect master password"

\* a token made under the same key has just been accepted
C12_WitnessAccepted ==
    /\ out.op = "VerifyPassword"
    /\ vault.unlocked
    /\ out.arg = CreateVerificationToken(vault, "n1").val
    /\ out.err = NoErr

\* a token that opens under the key to another string has just been rejected
C12_WitnessCorrupted ==
    /\ out.op = "VerifyPassword"
    /\ vault.unlocked
    /\ out.arg.t = "ct"
    /\ out.arg.k = vault.key
    /\ out.arg.pt # VerificationTokenValue
    /\ out.err = "vault verification failed - possible corruption"

\* C13: in every state reachable by NewVault, Unlock, UnlockWithKey and Lock
\* calls with arbitrary key arguments, unlocked = true implies that the held
\* key is non-nil and exactly 32 bytes long.
C13_UnlockedKeySized ==
    vault.unlocked => (vault.key # Nil /\ KeyLen(vault.key) = 32)

\* C13 as amended: unlocked = true implies that the held key is the argument
\* of the latest Unlock or UnlockWithKey call, whatever it was (nothing is
\* validated, so it is non-nil and 32 bytes long only if the argument was);
\* a locked vault holds no key.
C13_HeldKeyIsArgument ==
    /\ vault.unlocked => vault.key = out.key
    /\ ~vault.unlocked => vault.key = Nil

\* unlocked with a key that is no cipher key, and used
C13_Witness ==
    /\ vault.unlocked
    /\ vault.key = ShortKey
    /\ out.key = ShortKey
    /\ out.op = "Encrypt"
    /\ out.err # NoErr

\* C14: Lock sets unlocked to false, overwrites every byte of the held key
\* with zero and drops the key reference; Lock on a vault that is already
\* locked (also one never unlocked) leaves it locked with a nil key.  (Lock
\* returns nothing, so there is no error to raise.)
C14_LockZeroes ==
    pc.locker = "returned" =>
        /\ ~vault.unlocked
        /\ vault.key = Nil
        /\ pc.given => \A b \in 1 .. KeyBytes : heap[b] = 0

\* a second Lock, on the vault locked by the first, has returned
C14_Witness ==
    /\ pc.locker = "returned"
    /\ pc.relocked
    /\ pc.given
    /\ ~pc.held
    /\ ~vault.unlocked
    /\ vault.key = Nil
    /\ \A b \in 1 .. KeyBytes : heap[b] = 0

\* a Lock on a vault that was never unlocked has returned
C14_WitnessNeverUnlocked ==
    /\ pc.locker = "returned"
    /\ pc.relocked
    /\ ~pc.given
    /\ ~vault.unlocked
    /\ vault.key = Nil

\* C15: when Lock overlaps Encrypt or Decrypt on the same Vault, the call
\* either fails with vault locked or runs the cipher with the complete key
\* that Unlock installed, never with a nil, partly zeroed or all-zero key.
C15_Serialized ==
    (pc.worker = "returned" /\ out.op \in {"Encrypt", "Decrypt"}) =>
        \/ out.err = "vault locked"
        \/ /\ out.err = NoErr
           /\ out.arg = [t |-> "bytes", of |-> FreshKeyBuffer]

\* C16: after CreateSession(K) succeeded, GetCachedKey called while the
\* session is valid returns exactly K; after a later CreateSession(K2) it
\* returns K2, not K.
C16_CachedKeyRoundTrip ==
    (out.op = "GetCachedKey" /\ IsValid(sys, cfgSecs, now)) =>
        /\ out.err = NoErr
        /\ out.val = out.key

\* the key of a second session, different from the first one's, has been
\* returned
C16_Witness ==
    /\ out.op = "GetCachedKey"
    /\ IsValid(sys, cfgSecs, now)
    /\ out.err = NoErr
    /\ out.arg # Nil
    /\ out.arg # out.key
    /\ out.val = out.key
    /\ out.val # out.arg

\* C17: while the vault is locked, Add, Get and Update of the Encrypted
\* Record Store each fail with the vault-locked error and leave the
\* underlying store as it was.
C17_LockedStoreOps ==
    [][(~vault.unlocked /\ out'.op \in {"Add", "Get", "Update"}) =>
           (out'.err = "vault is locked" /\ out'.val = Nil /\ secrets' = secrets)]_vars

C17_Witness ==
    /\ ~vault.unlocked
    /\ out.op = "Update"
    /\ out.err = "vault is locked"
    /\ secrets[out.arg.id] # Absent
    /\ secrets[out.arg.id].t = "ct"
    /\ secrets[out.arg.id].pt.t = "json"
    /\ secrets[out.arg.id].pt.of.username # out.arg.username

\* C18: List fails with an error whenever the vault is locked, for every
\* content of the underlying store, empty or not.
C18_ListLocked ==
    (out.op = "List" /\ ~vault.unlocked) => out.err # NoErr

\* C18 as amended: List fails with an error whenever the vault is locked and
\* the underlying store holds at least one entry; on an empty store List
\* returns the empty list without an error, locked or not.
C18_ListLockedNonEmpty ==
    out.op = "List" =>
        /\ (~vault.unlocked /\ RepoListKeys(secrets) # {}) =>
               (out.err # NoErr /\ out.val = {})
        /\ RepoListKeys(secrets) = {} => (out.err = NoErr /\ out.val = {})

C18_Witness ==
    /\ out.op = "List"
    /\ ~vault.unlocked
    /\ \E k \in RepoIds : secrets[k] # Absent /\ secrets[k].t = "ct" /\ secrets[k].k = RepoKey
    /\ out.err # NoErr

\* an entry that the vault v cannot decrypt, or whose plaintext is no record
BadEntry(e, v) ==
    \/ e.t # "ct"
    \/ ~ValidKeySize(v.key)
    \/ e.k # v.key
    \/ e.pt.t # "json"

\* C19: if any stored entry fails to decrypt or to deserialize, List returns
\* an error and no records at all, wherever the bad entry falls among the
\* keys; with no bad entry it returns every record.
C19_ListAllOrNothing ==
    (out.op = "List" /\ vault.unlocked) =>
        LET keys == RepoListKeys(secrets)
        IN  IF \E k \in keys : BadEntry(secrets[k], vault)
            THEN out.err # NoErr /\ out.val = {}
            ELSE out.err = NoErr /\ out.val = {secrets[k].pt.of : k \in keys}

\* the bad entry comes first in the enumeration, a good one after it
C19_Witness ==
    /\ out.op = "List"
    /\ vault.unlocked
    /\ secrets["id1"] # Absent /\ BadEntry(secrets["id1"], vault)
    /\ secrets["id2"] # Absent /\ ~BadEntry(secrets["id2"], vault)
    /\ out.err # NoErr
    /\ out.val = {}

\* the bad entry comes last, after a good one
C19_WitnessLast ==
    /\ out.op = "List"
    /\ vault.unlocked
    /\ secrets["id2"] # Absent /\ BadEntry(secrets["id2"], vault)
    /\ secrets["id1"] # Absent /\ ~BadEntry(secrets["id1"], vault)
    /\ out.err # NoErr
    /\ out.val = {}

\* C20: Delete(id) for an id that is not in the store fails with a not-found
\* error and leaves the store unchanged, over the production bucketed store.
C20_DeleteAbsent ==
    [][(out'.op = "Delete" /\ secrets[out'.arg.id] = Absent) =>
           (out'.err # NoErr /\ secrets' = secrets)]_vars

\* the part of C20 that holds: the store is left unchanged
C20_DeleteAbsentNoChange ==
    [][(out'.op = "Delete" /\ secrets[out'.arg.id] = Absent) =>
           secrets' = secrets]_vars

\* C21: Delete does not need the vault unlocked: on a locked vault, Delete of
\* a stored id succeeds, removes exactly that key and leaves every other
\* stored value as it was, while Get, Add and Update fail in the same state.
C21_DeleteWhileLocked ==
    [][(~vault.unlocked /\ out'.op = "Delete" /\ secrets[out'.arg.id] # Absent) =>
        LET id == out'.arg.id
            rec == [id |-> id, username |-> "alice", createdAt |-> now,
                    updatedAt |-> now]
        IN  /\ out'.err = NoErr
            /\ secrets'[id] = Absent
            /\ \A k \in RepoIds \ {id} : secrets'[k] = secrets[k]
            /\ EncGet(secrets, vault, id).err # NoErr
            /\ EncAdd(secrets, vault, rec, "n1").err # NoErr
            /\ EncUpdate(secrets, vault, rec, "n1", now).err # NoErr]_vars

\* a stored record has been deleted on a locked vault, another one is left
C21_Witness ==
    /\ ~vault.unlocked
    /\ out.op = "Delete"
    /\ out.err = NoErr
    /\ out.pre # Absent
    /\ out.pre.t = "ct"
    /\ secrets[out.arg.id] = Absent
    /\ \E k \in RepoIds : secrets[k] # Absent

\* every stored entry is a record the vault v can read
GoodStore(b, v) == \A k \in RepoListKeys(b) : ~BadEntry(b[k], v)

\* C22: on an unlocked vault, after Add of records with distinct ids (the
\* store holding nothing else), Get(id) returns the record added under id
\* and List returns exactly one record per stored id, the added one with its
\* field values; after Delete(id), Get(id) fails and List has lost exactly
\* that record, the others being unchanged.
C22_AddGetListDelete ==
    [][/\ (vault.unlocked /\ out'.op = "Add" /\ out'.err = NoErr
              /\ GoodStore(secrets', vault)) =>
           LET rec == out'.arg
               l == EncList(secrets', vault)
           IN  /\ out'.val = [t |-> "id", id |-> rec.id]
               /\ EncGet(secrets', vault, rec.id) = [err |-> NoErr, val |-> rec]
               /\ l.err = NoErr
               /\ rec \in l.val
               /\ \A r \in l.val : r.id = rec.id => r = rec
               /\ Cardinality(l.val) = Cardinality(RepoListKeys(secrets'))
               /\ \A k \in RepoIds \ {rec.id} :
                      EncGet(secrets', vault, k) = EncGet(secrets, vault, k)
       /\ (vault.unlocked /\ out'.op = "Delete" /\ secrets[out'.arg.id] # Absent
              /\ GoodStore(secrets, vault)) =>
           LET id == out'.arg.id
               before == EncList(secrets, vault)
               after == EncList(secrets', vault)
           IN  /\ out'.err = NoErr
               /\ EncGet(secrets', vault, id).err # NoErr
               /\ before.err = NoErr /\ after.err = NoErr
               /\ after.val = before.val \ {EncGet(secrets, vault, id).val}
               /\ Cardinality(after.val) = Cardinality(before.val) - 1
               /\ \A k \in RepoIds \ {id} :
                      EncGet(secrets', vault, k) = EncGet(secrets, vault, k)]_vars

\* two records were added, one has been deleted, List returns the other
C22_Witness ==
    /\ vault.unlocked
    /\ out.op = "Delete"
    /\ out.err = NoErr
    /\ out.pre # Absent
    /\ ~BadEntry(out.pre, vault)
    /\ GoodStore(secrets, vault)
    /\ EncGet(secrets, vault, out.arg.id).err # NoErr
    /\ Cardinality(EncList(secrets, vault).val) = 1

\* the only record has been deleted: List is empty
C22_WitnessEmpty ==
    /\ vault.unlocked
    /\ out.op = "Delete"
    /\ out.pre # Absent
    /\ ~BadEntry(out.pre, vault)
    /\ EncList(secrets, vault) = [err |-> NoErr, val |-> {}]

\* the second of two records has been added
C22_WitnessAdded ==
    /\ vault.unlocked
    /\ out.op = "Add"
    /\ out.err = NoErr
    /\ out.pre = Absent
    /\ GoodStore(secrets, vault)
    /\ Cardinality(EncList(secrets, vault).val) = 2

\* C23: Update(record) on an unlocked vault (holding a cipher key) succeeds
\* and overwrites the value stored under record.id with the encryption of
\* the record carrying the refreshed updatedAt; afterwards Get(record.id)
\* returns the updated fields; no other storage key is added, removed or
\* changed.
C23_UpdateFrame ==
    [][(vault.unlocked /\ ValidKeySize(vault.key) /\ out'.op = "Update") =>
        LET rec == [out'.arg EXCEPT !.updatedAt = now]
        IN  /\ out'.err = NoErr
            /\ secrets'[rec.id].t = "ct"
            /\ secrets'[rec.id].k = vault.key
            /\ secrets'[rec.id].pt = JsonMarshal(rec)
            /\ EncGet(secrets', vault, rec.id) = [err |-> NoErr, val |-> rec]
            /\ \A k \in RepoIds \ {rec.id} : secrets'[k] = secrets[k]]_vars

\* a stored record has been overwritten by an Update that changed the
\* username and refreshed updatedAt, next to another stored record
C23_Witness ==
    /\ vault.unlocked
    /\ out.op = "Update"
    /\ out.err = NoErr
    /\ now > 0
    /\ out.pre # Absent
    /\ ~BadEntry(out.pre, vault)
    /\ out.pre.pt.of.username # out.arg.username
    /\ EncGet(secrets, vault, out.arg.id).val.updatedAt = now
    /\ EncGet(secrets, vault, out.arg.id).val.username = out.arg.username
    /\ \E k \in RepoIds \ {out.arg.id} : secrets[k] # Absent

(***************************************************************************)
(* SpecInit: the commands around initialization, with a system store whose *)
(* writes can fail.  InitializeVault writes the salt, the verification     *)
(* token and the default configuration with three separate Puts; a Put     *)
(* that fails ends the command and leaves the earlier ones in the store.   *)
(***************************************************************************)
PutErrors ==
    [k \in {saltKey, verificationTokenKey, configDataKey} |->
        CASE k = saltKey -> "failed to save salt"
          [] k = verificationTokenKey -> "failed to save verification token"
          [] OTHER -> "failed to save default configuration"]

\* coconut init, where the Put number failAt returns an error
InitializeVaultPutFails(p, saltId, nonce, failAt) ==
    LET existingSalt == RepoGet(sys, saltKey).val
        salt == [t |-> "salt", id |-> saltId]
        key == DeriveKey(p, salt)
        v == VaultUnlock(NewVault(salt), key)
        token == CreateVerificationToken(v, nonce)
        sys1 == IF failAt > 1 THEN RepoPut(sys, saltKey, salt) ELSE sys
        sys2 == IF failAt > 2
                THEN RepoPut(sys1, verificationTokenKey, token.val)
                ELSE sys1
    IN  /\ ~NonEmpty(existingSalt)
        /\ token.err = NoErr
        /\ sys' = sys2
        /\ out' = [NoOut("init") EXCEPT
                       !.err = PutErrors[<<saltKey, verificationTokenKey,
                                           configDataKey>>[failAt]],
                       !.inp = p]
        /\ UNCHANGED <<now, secrets, vault, cfgSecs, heap, pc>>

NextInit ==
    \/ Tick
    \/ NewProcess
    \/ \E p1, p2 \in Passwords, s \in Salts, n \in Nonces :
           InitializeVault(p1, p2, s, n)
    \/ \E p \in Passwords, s \in Salts, n \in Nonces, f \in 1 .. 3 :
           InitializeVaultPutFails(p, s, n, f)
    \/ \E inp \in PromptInputs, k \in SessionKeyIds, n \in Nonces :
           CmdUnlock(inp, k, n)
    \/ CmdLock

SpecInit == Init /\ [][NextInit]_vars

(***************************************************************************)
(* SpecSystem: the functions of the vault package that read the system     *)
(* store, applied to every store of a salt and a verification token that   *)
(* is absent, empty or present.                                            *)
(***************************************************************************)
SySalt == [t |-> "salt", id |-> "salt1"]

SyKeys == {DeriveKey(p, SySalt) : p \in Passwords}

\* the verification tokens an initialization with some password stores
SyTokens ==
    {CreateVerificationToken(UnlockWithKey(SySalt, k), n).val :
        k \in SyKeys, n \in Nonces}

\* an encryption, under the right key, of another text than the constant
SyWrongValueToken ==
    AESEncrypt(DeriveKey("correcthorse", SySalt),
               [t |-> "str", s |-> "wrong-value"], "n1").val

Bool(b) == [t |-> "bool", b |-> b]

InitSystem ==
    /\ now = 0
    /\ \E s \in {Absent, Empty, Garbage, SySalt},
          tok \in {Absent, Empty, Garbage, SyWrongValueToken} \cup SyTokens :
           sys = [k \in SysKeys |->
                     CASE k = saltKey -> s
                       [] k = verificationTokenKey -> tok
                       [] OTHER -> Absent]
    /\ secrets = [k \in Ids |-> Absent]
    /\ vault = NewVault(Nil)
    /\ cfgSecs = DefaultAutoLockSecs
    /\ out = NoOut("new")
    /\ heap = FreshKeyBuffer
    /\ pc = NoCalls

SyCheckVaultExists ==
    /\ out' = [NoOut("CheckVaultExists") EXCEPT !.val = Bool(CheckVaultExists(sys)),
                                                !.pre = sys]
    /\ UNCHANGED <<now, sys, secrets, vault, cfgSecs, heap, pc>>

SyLoadVaultConfig ==
    LET r == LoadVaultConfig(sys)
    IN  /\ out' = [NoOut("LoadVaultConfig") EXCEPT !.err = r.err, !.val = r.val,
                                                   !.pre = sys]
        /\ UNCHANGED <<now, sys, secrets, vault, cfgSecs, heap, pc>>

\* the caller unlocks a Vault with key and has it verified
SyVerifyVaultPassword(key) ==
    LET v == UnlockWithKey(LoadVaultConfig(sys).val, key)
        r == VerifyVaultPassword(sys, v)
    IN  /\ out' = [NoOut("VerifyVaultPassword") EXCEPT !.err = r.err,
                                                       !.key = key,
                                                       !.verified = r.checked,
                                                       !.pre = sys]
        /\ UNCHANGED <<now, sys, secrets, vault, cfgSecs, heap, pc>>

NextSystem ==
    \/ SyCheckVaultExists
    \/ SyLoadVaultConfig
    \/ \E k \in SyKeys \cup {ShortKey} : SyVerifyVaultPassword(k)
    \/ \E p1, p2 \in Passwords, s \in Salts, n \in Nonces :
           InitializeVault(p1, p2, s, n)

SpecSystem == InitSystem /\ [][NextSystem]_vars

(***************************************************************************)
(* C24: InitializeVault is tied to vault existence.  A run of init fails   *)
(* with "vault already initialized", leaving salt and verification token   *)
(* as they were, exactly when CheckVaultExists held before it; and a run   *)
(* on a store where CheckVaultExists did not hold, whose password prompt   *)
(* and store writes succeed, ends with CheckVaultExists holding.           *)
(* Violated: init looks at the salt alone, so after a run whose second Put *)
(* failed the store has a salt and no token, CheckVaultExists is false and *)
(* every later init is refused.                                            *)
(***************************************************************************)
InitEnvironmentErrors ==
    {"passwords do not match", "failed to create verification token"}
        \cup {PutErrors[k] : k \in DOMAIN PutErrors}

C24_InitTiedToExistence ==
    [][(out'.op = "init" /\ now' = now) =>
         /\ (out'.err = "vault already initialized") <=> CheckVaultExists(sys)
         /\ CheckVaultExists(sys) =>
                /\ sys'[saltKey] = sys[saltKey]
                /\ sys'[verificationTokenKey] = sys[verificationTokenKey]
         /\ (~CheckVaultExists(sys) /\ out'.err \notin InitEnvironmentErrors) =>
                /\ out'.err = NoErr
                /\ CheckVaultExists(sys')]_vars

(***************************************************************************)
(* C25: CheckVaultExists returns true if and only if the system store      *)
(* holds both a salt and a verification token of non-zero length; it       *)
(* returns false when either is missing; and it leaves the store as it     *)
(* was.                                                                    *)
(***************************************************************************)
Stored(system, key) == system[key] # Absent /\ system[key] # Empty

C25_CheckVaultExists ==
    [][out'.op = "CheckVaultExists" =>
         /\ out'.val = Bool(Stored(sys, saltKey) /\ Stored(sys, verificationTokenKey))
         /\ sys' = sys]_vars

\* CheckVaultExists has answered true on a store holding both values
C25_Witness ==
    /\ out.op = "CheckVaultExists"
    /\ out.val = Bool(TRUE)
    /\ Stored(sys, saltKey)
    /\ Stored(sys, verificationTokenKey)

\* CheckVaultExists has answered false on a store holding a salt and no token
C25_WitnessSaltOnly ==
    /\ out.op = "CheckVaultExists"
    /\ out.val = Bool(FALSE)
    /\ Stored(sys, saltKey)
    /\ sys[verificationTokenKey] = Absent

\* CheckVaultExists has answered false on a store whose token has length 0
C25_WitnessEmptyToken ==
    /\ out.op = "CheckVaultExists"
    /\ out.val = Bool(FALSE)
    /\ Stored(sys, saltKey)
    /\ sys[verificationTokenKey] = Empty

(***************************************************************************)
(* C29, for the vault package's functions over the system store: no        *)
(* failure is swallowed.  When the read of the salt fails during           *)
(* LoadVaultConfig, or the read of the verification token or its           *)
(* decryption fails during VerifyVaultPassword, the function returns an    *)
(* error.                                                                  *)
(* Violated: both functions return nil when their read fails.              *)
(***************************************************************************)
C29_NoFailureSwallowed ==
    /\ (out.op = "LoadVaultConfig" /\ RepoGet(out.pre, saltKey).err # NoErr)
           => out.err # NoErr
    /\ (out.op = "VerifyVaultPassword"
           /\ RepoGet(out.pre, verificationTokenKey).err # NoErr)
           => out.err # NoErr
    /\ (out.op = "VerifyVaultPassword"
           /\ RepoGet(out.pre, verificationTokenKey).err = NoErr
           /\ AESDecrypt(out.key, out.pre[verificationTokenKey]).err # NoErr)
           => out.err # NoErr

(***************************************************************************)
(* C26: Clear deletes both the session record and the session key and      *)
(* returns success whether or not either was there; in the state it leaves *)
(* IsValid is false, GetCachedKey and UpdateActivity fail,                 *)
(* GetRemainingTime is zero, and a second Clear changes nothing.  Nothing  *)
(* else in the system store is touched.                                    *)
(***************************************************************************)
C26_Clear ==
    [][out'.op = "Clear" =>
         /\ out'.err = NoErr
         /\ sys'[sessionDataKey] = Absent
         /\ sys'[sessionKeyKey] = Absent
         /\ \A k \in SysKeys \ {sessionDataKey, sessionKeyKey} : sys'[k] = sys[k]
         /\ ~IsValid(sys', cfgSecs', now')
         /\ GetCachedKey(sys', cfgSecs', now').err # NoErr
         /\ GetCachedKey(sys', cfgSecs', now').val = Nil
         /\ UpdateActivity(sys', now').err # NoErr
         /\ GetRemainingTime(sys', cfgSecs', now') = 0
         /\ Clear(sys') = sys']_vars

\* Clear has run on a store holding a session that was valid and whose key
\* could be recovered
C26_Witness ==
    /\ out.op = "Clear"
    /\ out.pre[sessionDataKey] # Absent
    /\ out.pre[sessionKeyKey] # Absent
    /\ IsValid(out.pre, cfgSecs, now)
    /\ GetCachedKey(out.pre, cfgSecs, now).err = NoErr
    /\ GetRemainingTime(out.pre, cfgSecs, now) > 0

\* Clear has run on a store with no session
C26_WitnessAbsent ==
    /\ out.op = "Clear"
    /\ out.pre[sessionDataKey] = Absent
    /\ out.pre[sessionKeyKey] = Absent

\* Clear has run on a store holding a session key and undecodable session bytes
C26_WitnessCorrupt ==
    /\ out.op = "Clear"
    /\ out.pre[sessionDataKey] = Garbage
    /\ out.pre[sessionKeyKey] # Absent

(***************************************************************************)
(* C27: UpdateActivity on a store with no session record, or with one that *)
(* does not decode, fails with the no-active-session error and writes      *)
(* nothing: no session record and no session key is created or changed.    *)
(***************************************************************************)
C27_UpdateActivityNoSession ==
    [][(out'.op = "UpdateActivity" /\ loadSession(sys).err # NoErr) =>
         /\ out'.err = "no active session to update"
         /\ sys' = sys]_vars

\* UpdateActivity has failed on a store with no session record
C27_Witness ==
    /\ out.op = "UpdateActivity"
    /\ out.err = "no active session to update"
    /\ sys[sessionDataKey] = Absent
    /\ sys[sessionKeyKey] = Absent

\* UpdateActivity has failed on a store whose session record does not decode
C27_WitnessUnreadable ==
    /\ out.op = "UpdateActivity"
    /\ out.err = "no active session to update"
    /\ sys[sessionDataKey] = Garbage

(***************************************************************************)
(* SpecTamper: the Session Manager over a system store whose session       *)
(* entries are also rewritten from outside: the session bytes replaced by  *)
(* bytes that do not decode, the encryptedKey field replaced, the session  *)
(* key replaced or removed.                                                *)
(***************************************************************************)
NotBase64 == [t |-> "str", s |-> "not base64!"]

SmIsValid ==
    /\ out' = SmOut("IsValid", NoErr, Bool(IsValid(sys, cfgSecs, now)))
    /\ UNCHANGED <<now, sys, secrets, vault, cfgSecs, heap, pc>>

Duration(n) == [t |-> "duration", n |-> n]

SmGetRemainingTime ==
    /\ out' = SmOut("GetRemainingTime", NoErr,
                    Duration(GetRemainingTime(sys, cfgSecs, now)))
    /\ UNCHANGED <<now, sys, secrets, vault, cfgSecs, heap, pc>>

\* encryptedKey becomes bytes that are no ciphertext, or the encryption
\* under the stored session key of a text that is not base64
SmTamperEncryptedKey(plain) ==
    LET s == loadSession(sys)
        k == loadSessionKey(sys)
        ek == IF plain
              THEN Garbage
              ELSE AESEncrypt(k.val, NotBase64, "n1").val
    IN  /\ s.err = NoErr
        /\ k.err = NoErr
        /\ sys' = saveSession(sys, [s.val EXCEPT !.encryptedKey = ek])
        /\ out' = SmOut("Tamper", NoErr, Nil)
        /\ UNCHANGED <<now, secrets, vault, cfgSecs, heap, pc>>

\* the session key is replaced by another key, or removed
SmTamperSessionKey(k) ==
    /\ sys[sessionDataKey] # Absent
    /\ sys[sessionKeyKey] # Absent
    /\ sys[sessionKeyKey] # k
    /\ sys' = [sys EXCEPT ![sessionKeyKey] = k]
    /\ out' = SmOut("Tamper", NoErr, Nil)
    /\ UNCHANGED <<now, secrets, vault, cfgSecs, heap, pc>>

NextTamper ==
    \/ NextSession
    \/ SmIsValid
    \/ SmGetRemainingTime
    \/ \E plain \in BOOLEAN : SmTamperEncryptedKey(plain)
    \/ \E k \in {RandomKey(id) : id \in SessionKeyIds} \cup {Absent} :
           SmTamperSessionKey(k)

SpecTamper == Init /\ [][NextTamper]_vars

(***************************************************************************)
(* C28: when the stored session record does not decode, IsValid returns    *)
(* false and GetCachedKey returns an error, and neither changes the store; *)
(* when the record decodes and its encryptedKey is not a ciphertext under  *)
(* the stored session key, or decrypts to something that is not base64,    *)
(* GetCachedKey returns an error and no key.                               *)
(***************************************************************************)
Undecodable(system) ==
    system[sessionDataKey] # Absent /\ system[sessionDataKey].t # "session"

Undecryptable(system) ==
    /\ system[sessionDataKey] # Absent
    /\ system[sessionDataKey].t = "session"
    /\ LET ek == system[sessionDataKey].encryptedKey
       IN  \/ ek.t # "ct"
           \/ ek.k # system[sessionKeyKey]
           \/ ek.pt.t # "b64"

C28_CorruptSession ==
    [][/\ out'.op \in {"IsValid", "GetCachedKey"} => sys' = sys
       /\ (out'.op = "IsValid" /\ Undecodable(sys)) => out'.val = Bool(FALSE)
       /\ (out'.op = "GetCachedKey" /\ (Undecodable(sys) \/ Undecryptable(sys))) =>
              /\ out'.err # NoErr
              /\ out'.val = Nil]_vars

\* GetCachedKey has failed on a session whose encryptedKey decrypts under the
\* stored session key to a text that is not base64, the session not expired
C28_Witness ==
    /\ out.op = "GetCachedKey"
    /\ out.err = "failed to decode vault key"
    /\ IsValid(sys, cfgSecs, now)
    /\ Undecryptable(sys)
    /\ sys[sessionDataKey].encryptedKey.t = "ct"
    /\ sys[sessionDataKey].encryptedKey.k = sys[sessionKeyKey]

\* GetCachedKey has failed on a session whose session key was replaced
C28_WitnessWrongKey ==
    /\ out.op = "GetCachedKey"
    /\ out.err = "failed to decrypt vault key"
    /\ sys[sessionDataKey].encryptedKey.t = "ct"
    /\ sys[sessionKeyKey] # Absent
    /\ sys[sessionDataKey].encryptedKey.k # sys[sessionKeyKey]

\* IsValid has answered false and GetCachedKey has failed on session bytes
\* that do not decode
C28_WitnessUndecodable ==
    /\ Undecodable(sys)
    /\ \/ out.op = "IsValid" /\ out.val = Bool(FALSE)
       \/ out.op = "GetCachedKey" /\ out.err # NoErr

(***************************************************************************)
(* SpecCipher: AESGCM.Encrypt and AESGCM.Decrypt at the level of the bytes *)
(* they frame, and a Vault over them.  A text is the sequence of its       *)
(* bytes; Seal and Open are the library's authenticated cipher; what       *)
(* Encrypt and Decrypt add is the nonce placed before the sealed bytes,    *)
(* the unpadded base64 text around them and the conversions between        *)
(* string and bytes.                                                       *)
(***************************************************************************)
\* bytes of a nonce (the library's is 12)
NonceSize == 2

\* "a" is a one-byte character, "c3" "a9" the two bytes of one character
CiTexts == {<<>>, <<"a">>, <<"c3", "a9">>, <<"a", "c3", "a9">>}

CiKeys ==
    {[t |-> "raw", len |-> 16], [t |-> "raw", len |-> 24],
     DeriveKey("correcthorse", [t |-> "salt", id |-> "salt1"]), ShortKey, Nil}

Text(bytes) == [t |-> "text", bytes |-> bytes]

\* io.ReadFull(rand.Reader, nonce)
NonceBytes(id) == [j \in 1 .. NonceSize |-> [t |-> "nb", id |-> id, j |-> j]]

\* aesgcm.Seal(dst, nonce, plaintext, nil): dst, the encrypted bytes, the tag
Seal(dst, key, nonce, plaintext) ==
    dst \o [i \in 1 .. Len(plaintext) |->
               [t |-> "eb", k |-> key, n |-> nonce, i |-> i, b |-> plaintext[i]]]
        \o <<[t |-> "tag", k |-> key, n |-> nonce, pt |-> plaintext]>>

\* aesgcm.Open(nil, nonce, ciphertext, nil)
Open(key, nonce, ciphertext) ==
    IF Len(ciphertext) < 1
    THEN [err |-> "cipher: message authentication failed", val |-> <<>>]
    ELSE LET body == SubSeq(ciphertext, 1, Len(ciphertext) - 1)
             tag == ciphertext[Len(ciphertext)]
             wellFormed == \A i \in 1 .. Len(body) :
                               /\ body[i].t = "eb"
                               /\ body[i].k = key
                               /\ body[i].n = nonce
                               /\ body[i].i = i
             plaintext == [i \in 1 .. Len(body) |-> body[i].b]
         IN  IF wellFormed /\ tag = [t |-> "tag", k |-> key, n |-> nonce,
                                     pt |-> plaintext]
             THEN [err |-> NoErr, val |-> plaintext]
             ELSE [err |-> "cipher: message authentication failed", val |-> <<>>]

RawStdEncode(data) == [t |-> "rawb64", of |-> data]

RawStdDecode(encoded) ==
    IF encoded.t = "rawb64"
    THEN [err |-> NoErr, val |-> encoded.of]
    ELSE [err |-> "illegal base64 data", val |-> <<>>]

AESGCMEncrypt(key, plaintext, nonceId) ==
    IF ~ValidKeySize(key)
    THEN [err |-> "crypto/aes: invalid key size", val |-> Nil]
    ELSE LET nonce == NonceBytes(nonceId)
         IN  [err |-> NoErr,
              val |-> RawStdEncode(Seal(nonce, key, nonce, plaintext.bytes))]

\* the sealed bytes taken from one byte too early
AESGCMDecryptMisframed(key, encoded) ==
    LET d == RawStdDecode(encoded)
    IN  IF d.err # NoErr
        THEN [err |-> d.err, val |-> Nil]
        ELSE IF ~ValidKeySize(key)
        THEN [err |-> "crypto/aes: invalid key size", val |-> Nil]
        ELSE IF Len(d.val) < NonceSize
        THEN [err |-> "malformed ciphertext", val |-> Nil]
        ELSE LET nonce == SubSeq(d.val, 1, NonceSize)
                 ciphertext == SubSeq(d.val, NonceSize, Len(d.val))
                 o == Open(key, nonce, ciphertext)
             IN  IF o.err # NoErr
                 THEN [err |-> o.err, val |-> Nil]
                 ELSE [err |-> NoErr, val |-> Text(o.val)]

AESGCMDecrypt(key, encoded) ==
    LET d == RawStdDecode(encoded)
    IN  IF d.err # NoErr
        THEN [err |-> d.err, val |-> Nil]
        ELSE IF ~ValidKeySize(key)
        THEN [err |-> "crypto/aes: invalid key size", val |-> Nil]
        ELSE IF Len(d.val) < NonceSize
        THEN [err |-> "malformed ciphertext", val |-> Nil]
        ELSE LET nonce == SubSeq(d.val, 1, NonceSize)
                 ciphertext == SubSeq(d.val, NonceSize + 1, Len(d.val))
                 o == Open(key, nonce, ciphertext)
             IN  IF o.err # NoErr
                 THEN [err |-> o.err, val |-> Nil]
                 ELSE [err |-> NoErr, val |-> Text(o.val)]

\* the operation's result, the key it used, the plaintext of the latest
\* encryption (arg) and the encryption itself (pre)
CiOut(op, r, key, arg, pre) ==
    [NoOut(op) EXCEPT !.err = r.err, !.val = r.val, !.key = key, !.arg = arg,
                      !.pre = pre]

CiEncrypt(key, bytes, nonceId) ==
    LET r == AESGCMEncrypt(key, Text(bytes), nonceId)
    IN  /\ out' = CiOut("Encrypt", r, key, Text(bytes), r.val)
        /\ UNCHANGED <<now, sys, secrets, vault, cfgSecs, heap, pc>>

\* the latest encryption is decrypted with key
CiDecrypt(key) ==
    LET r == AESGCMDecrypt(key, out.pre)
    IN  /\ out.op \in {"Encrypt", "VaultEncrypt"}
        /\ out.err = NoErr
        /\ out' = CiOut("Decrypt", r, key, out.arg, out.pre)
        /\ UNCHANGED <<now, sys, secrets, vault, cfgSecs, heap, pc>>

CiUnlock(key) ==
    /\ vault' = VaultUnlock(NewVault(Nil), key)
    /\ out' = CiOut("Unlock", [err |-> NoErr, val |-> Nil], key, out.arg, out.pre)
    /\ UNCHANGED <<now, sys, secrets, cfgSecs, heap, pc>>

CiLock ==
    /\ vault' = VaultLock(vault)
    /\ out' = CiOut("Lock", [err |-> NoErr, val |-> Nil], Nil, out.arg, out.pre)
    /\ UNCHANGED <<now, sys, secrets, cfgSecs, heap, pc>>

\* Vault.Encrypt with the AESGCM strategy
CiVaultEncrypt(bytes, nonceId) ==
    LET r == IF ~vault.unlocked
             THEN [err |-> "vault locked", val |-> Nil]
             ELSE AESGCMEncrypt(vault.key, Text(bytes), nonceId)
    IN  /\ out' = CiOut("VaultEncrypt", r, vault.key, Text(bytes), r.val)
        /\ UNCHANGED <<now, sys, secrets, vault, cfgSecs, heap, pc>>

\* Vault.Decrypt of the latest encryption
CiVaultDecrypt ==
    LET r == IF ~vault.unlocked
             THEN [err |-> "vault locked", val |-> Nil]
             ELSE AESGCMDecrypt(vault.key, out.pre)
    IN  /\ out.op \in {"Encrypt", "VaultEncrypt"}
        /\ out.err = NoErr
        /\ out' = CiOut("VaultDecrypt", r, vault.key, out.arg, out.pre)
        /\ UNCHANGED <<now, sys, secrets, vault, cfgSecs, heap, pc>>

NextCipher ==
    \/ \E k \in CiKeys, b \in CiTexts, n \in ApiNonces : CiEncrypt(k, b, n)
    \/ \E k \in CiKeys : CiDecrypt(k)
    \/ \E k \in CiKeys : CiUnlock(k)
    \/ CiLock
    \/ \E b \in CiTexts, n \in ApiNonces : CiVaultEncrypt(b, n)
    \/ CiVaultDecrypt

SpecCipher == Init /\ [][NextCipher]_vars

(***************************************************************************)
(* C30: with a key of a supported size (16, 24 or 32 bytes) Encrypt        *)
(* succeeds on every plaintext, the empty one and multi-byte text          *)
(* included, and decrypting what it returned with the same key gives the   *)
(* plaintext back, whatever nonce was drawn; a Vault unlocked with such a  *)
(* key decrypts what its Encrypt returned to the plaintext.                *)
(***************************************************************************)
C30_RoundTrip ==
    [][/\ (out'.op = "Encrypt" /\ KeyLen(out'.key) \in {16, 24, 32}) =>
              out'.err = NoErr
       /\ (out'.op = "Decrypt" /\ out.op = "Encrypt" /\ out'.key = out.key) =>
              /\ out'.err = NoErr
              /\ out'.val = out.arg
       /\ (out'.op = "VaultEncrypt" /\ vault.unlocked
              /\ KeyLen(vault.key) \in {16, 24, 32}) =>
              out'.err = NoErr
       /\ (out'.op = "VaultDecrypt" /\ out.op = "VaultEncrypt") =>
              /\ out'.err = NoErr
              /\ out'.val = out.arg]_vars

\* a multi-byte text has come back from Decrypt under a 16-byte key
C30_Witness ==
    /\ out.op = "Decrypt"
    /\ out.err = NoErr
    /\ KeyLen(out.key) = 16
    /\ out.val = Text(<<"a", "c3", "a9">>)
    /\ out.arg = out.val

\* the empty text has come back from a Vault unlocked with a 24-byte key
C30_WitnessVaultEmpty ==
    /\ out.op = "VaultDecrypt"
    /\ out.err = NoErr
    /\ vault.unlocked
    /\ KeyLen(vault.key) = 24
    /\ out.val = Text(<<>>)
    /\ out.arg = out.val

\* Decrypt with another key than the one of the encryption has failed
C30_WitnessOtherKey ==
    /\ out.op = "Decrypt"
    /\ out.err = "cipher: message authentication failed"

(***************************************************************************)
(* C31: a run of EnsureVaultUnlocked whose GetCachedKey fails (no session, *)
(* an expired one or a corrupted one) prompts for the password and derives *)
(* the key from it; when the run returns, the session records it found are *)
(* no longer in place: on success a session created at this instant wraps  *)
(* the derived key under the stored session key, on a prompt or            *)
(* verification failure both records are deleted.                          *)
(***************************************************************************)
FreshSession(system, t, key) ==
    /\ system[sessionDataKey].t = "session"
    /\ system[sessionDataKey].unlockedAt = t
    /\ system[sessionDataKey].lastActivityAt = t
    /\ system[sessionDataKey].encryptedKey.t = "ct"
    /\ system[sessionDataKey].encryptedKey.k = system[sessionKeyKey]
    /\ system[sessionDataKey].encryptedKey.pt = Base64Encode(key)

C31_WitnessCleared ==
    /\ out.op \in EnsureOps
    /\ out.hadExpired
    /\ out.err = "authentication failed"
    /\ sys[sessionDataKey] = Absent
    /\ sys[sessionKeyKey] = Absent

(***************************************************************************)
(* C32: the lock command deletes both session records, locks the factory's *)
(* vault if it is unlocked, and reports success; afterwards IsValid is     *)
(* false; and while no session record is stored (as lock leaves the store) *)
(* a command that needs the vault takes no key from the cache: it succeeds *)
(* only with the key derived from an entered password.                     *)
(***************************************************************************)
NoSessionRecords == sys[sessionDataKey] = Absent /\ sys[sessionKeyKey] = Absent

C32_WitnessNextCommand ==
    /\ out.op \in EnsureOps
    /\ out.src = "prompt"
    /\ out.err = NoErr
    /\ ~out.hadExpired
    /\ now > 0
    /\ sys[sessionDataKey].t = "session"
    /\ sys[sessionDataKey].unlockedAt = now

(***************************************************************************)
(* C33: UpdateActivity on a stored session succeeds and sets               *)
(* lastActivityAt to the current time, which is never earlier than the     *)
(* value it replaces; unlockedAt, timeoutSeconds, encryptedKey, the stored *)
(* session key and every other entry of the system store stay as they      *)
(* were.                                                                   *)
(***************************************************************************)
C33_UpdateActivityFrame ==
    [][(out'.op = "UpdateActivity" /\ loadSession(sys).err = NoErr) =>
         /\ out'.err = NoErr
         /\ sys'[sessionDataKey].t = "session"
         /\ sys'[sessionDataKey].lastActivityAt = now
         /\ sys'[sessionDataKey].lastActivityAt >= sys[sessionDataKey].lastActivityAt
         /\ sys'[sessionDataKey].unlockedAt = sys[sessionDataKey].unlockedAt
         /\ sys'[sessionDataKey].timeoutSeconds = sys[sessionDataKey].timeoutSeconds
         /\ sys'[sessionDataKey].encryptedKey = sys[sessionDataKey].encryptedKey
         /\ \A k \in SysKeys \ {sessionDataKey} : sys'[k] = sys[k]]_vars

\* UpdateActivity has moved lastActivityAt past the session's start
C33_Witness ==
    /\ out.op = "UpdateActivity"
    /\ out.err = NoErr
    /\ sys[sessionDataKey].t = "session"
    /\ sys[sessionDataKey].lastActivityAt = now
    /\ sys[sessionDataKey].unlockedAt < now
    /\ sys[sessionKeyKey] # Absent

(***************************************************************************)
(* C34: GetRemainingTime returns max(0, effective timeout - time since     *)
(* lastActivityAt), with the effective timeout IsValid uses; zero when no  *)
(* session can be loaded; never more than the effective timeout; positive  *)
(* exactly when IsValid is true.                                           *)
(***************************************************************************)
MaxInt(a, b) == IF a > b THEN a ELSE b

C34_RemainingTime ==
    out.op = "GetRemainingTime" =>
        /\ ~HasSession => out.val = Duration(0)
        /\ HasSession =>
               /\ out.val = Duration(MaxInt(0, EffectiveTimeout - Elapsed))
               /\ out.val.n <= EffectiveTimeout
        /\ (out.val.n > 0) <=> IsValid(sys, cfgSecs, now)

\* a positive remaining time, shortened by a live timeout below the recorded
\* one, after some time has passed
C34_Witness ==
    /\ out.op = "GetRemainingTime"
    /\ HasSession
    /\ out.val.n > 0
    /\ Elapsed > 0
    /\ cfgSecs > 0
    /\ cfgSecs < StoredSession.timeoutSeconds

\* zero remaining time on an expired session
C34_WitnessExpired ==
    /\ out.op = "GetRemainingTime"
    /\ HasSession
    /\ out.val = Duration(0)
    /\ Elapsed > EffectiveTimeout
    /\ ~IsValid(sys, cfgSecs, now)

\* zero remaining time on session bytes that do not decode
C34_WitnessUnreadable ==
    /\ out.op = "GetRemainingTime"
    /\ sys[sessionDataKey] = Garbage
    /\ out.val = Duration(0)

(***************************************************************************)
(* C35: VerifyVaultPassword returns nil when the verification token cannot *)
(* be read from the system store, whatever key the Vault was unlocked      *)
(* with; when the token is read it returns what VerifyPassword returns on  *)
(* that token: nil exactly for a token that decrypts under the Vault's key *)
(* to the verification constant.                                           *)
(***************************************************************************)
C35_VerifyVaultPassword ==
    out.op = "VerifyVaultPassword" =>
        LET tok == out.pre[verificationTokenKey]
            v == UnlockWithKey(out.pre[saltKey], out.key)
        IN  IF tok = Absent
            THEN out.err = NoErr /\ ~out.verified
            ELSE /\ out.verified
                 /\ out.err = VerifyPassword(v, tok).err
                 /\ (out.err = NoErr) <=>
                        /\ tok.t = "ct"
                        /\ tok.k = out.key
                        /\ tok.pt = VerificationTokenValue

\* nil for a key that is no AES key, the token missing
C35_Witness ==
    /\ out.op = "VerifyVaultPassword"
    /\ out.pre[verificationTokenKey] = Absent
    /\ out.key = ShortKey
    /\ out.err = NoErr

\* the token present and the key wrong: VerifyPassword's error
C35_WitnessWrongKey ==
    /\ out.op = "VerifyVaultPassword"
    /\ out.pre[verificationTokenKey].t = "ct"
    /\ out.pre[verificationTokenKey].k # out.key
    /\ out.err = "incorrect master password"

\* the token present and the key right: nil
C35_WitnessRightKey ==
    /\ out.op = "VerifyVaultPassword"
    /\ out.pre[verificationTokenKey].t = "ct"
    /\ out.pre[verificationTokenKey].k = out.key
    /\ out.err = NoErr

\* the token an encryption of another text: VerifyPassword's other error
C35_WitnessWrongValue ==
    /\ out.op = "VerifyVaultPassword"
    /\ out.err = "vault verification failed - possible corruption"

(***************************************************************************)
(* C36: a value given to `config set autolock` takes effect only at the    *)
(* next unlock: whether the session that already exists is valid is        *)
(* decided by the timeout recorded in it when it was created, whatever the *)
(* live configuration has become since.                                    *)
(* Violated: IsValid holds the session against the live value as soon as   *)
(* that value is positive and below the recorded one.                      *)
(***************************************************************************)
C36_NewTimeoutAtNextUnlock ==
    HasSession =>
        (IsValid(sys, cfgSecs, now) <=>
            Elapsed < StoredSession.timeoutSeconds * TicksPerSec)

(***************************************************************************)
(* C37: a session that has become invalid through inactivity stays invalid *)
(* until a new CreateSession: no UpdateActivity, GetCachedKey or Clear     *)
(* call, no passing of time and no change of the live configuration        *)
(* timeout makes IsValid true or lets GetCachedKey succeed again.          *)
(* Violated: UpdateActivity does not look at the session's validity and    *)
(* restarts the inactivity timer of an expired session; and a session      *)
(* expired under a lowered live timeout is valid again once the live       *)
(* timeout is raised.                                                      *)
(***************************************************************************)
C37_ExpiredStaysExpired ==
    [][(HasSession /\ ~IsValid(sys, cfgSecs, now)
            /\ ~(out'.op = "CreateSession" /\ out'.err = NoErr)) =>
         /\ ~IsValid(sys', cfgSecs', now')
         /\ GetCachedKey(sys', cfgSecs', now').err # NoErr]_vars

(***************************************************************************)
(* SpecFaults: the Session Manager over a system store whose individual    *)
(* writes and deletes can fail.  CreateSession writes the session record   *)
(* and then the session key with two Puts; Clear deletes them with two     *)
(* Deletes whose results it discards.  A failed Put or Delete leaves the   *)
(* entry as it was.                                                        *)
(***************************************************************************)
PutFailed == "put failed"

\* CreateSession whose Put number failAt fails: 1 the session record, 2 the
\* session key
CreateSessionPutFails(system, cfg, t, vaultKey, skid, nonce, failAt) ==
    LET sessionKey == RandomKey(skid)
        enc == AESEncrypt(sessionKey, Base64Encode(vaultKey), nonce)
        session == [t |-> "session",
                    unlockedAt |-> t,
                    lastActivityAt |-> t,
                    timeoutSeconds |-> cfg,
                    encryptedKey |-> enc.val]
    IN  IF enc.err # NoErr
        THEN [err |-> "failed to encrypt vault key", system |-> system]
        ELSE IF failAt = 1
        THEN [err |-> PutFailed, system |-> system]
        ELSE [err |-> PutFailed, system |-> saveSession(system, session)]

\* UpdateActivity whose Put fails
UpdateActivityPutFails(system, t) ==
    LET s == loadSession(system)
    IN  IF s.err # NoErr
        THEN [err |-> "no active session to update", system |-> system]
        ELSE [err |-> PutFailed, system |-> system]

\* Clear whose Delete of the session record, of the session key, or both, fails
ClearDeleteFails(system, failData, failKey) ==
    LET s1 == IF failData THEN system ELSE RepoDelete(system, sessionDataKey)
    IN  IF failKey THEN s1 ELSE RepoDelete(s1, sessionKeyKey)

SfCreateSession(vaultKey, skid, nonce, failAt) ==
    LET r == CreateSessionPutFails(sys, cfgSecs, now, vaultKey, skid, nonce, failAt)
    IN  /\ sys' = r.system
        /\ out' = SmOut("CreateSession", r.err, Nil)
        /\ UNCHANGED <<now, secrets, vault, cfgSecs, heap, pc>>

SfUpdateActivity ==
    LET r == UpdateActivityPutFails(sys, now)
    IN  /\ sys' = r.system
        /\ out' = SmOut("UpdateActivity", r.err, Nil)
        /\ UNCHANGED <<now, secrets, vault, cfgSecs, heap, pc>>

SfClear(failData, failKey) ==
    /\ failData \/ failKey
    /\ sys' = ClearDeleteFails(sys, failData, failKey)
    /\ out' = [SmOut("Clear", NoErr, Nil) EXCEPT !.pre = sys]
    /\ UNCHANGED <<now, secrets, vault, cfgSecs, heap, pc>>

NextFaults ==
    \/ SmTick
    \/ \E k \in SmVaultKeys, id \in SessionKeyIds, n \in Nonces :
           SmCreateSession(k, id, n)
    \/ SmGetCachedKey
    \/ SmUpdateActivity
    \/ SmClear
    \/ \E k \in SmVaultKeys, id \in SessionKeyIds, n \in Nonces, f \in 1 .. 2 :
           SfCreateSession(k, id, n, f)
    \/ SfUpdateActivity
    \/ \E fd, fk \in BOOLEAN : SfClear(fd, fk)

SpecFaults == Init /\ [][NextFaults]_vars

(***************************************************************************)
(* C38: after any sequence of CreateSession, UpdateActivity and Clear      *)
(* calls in which single store writes or deletes may fail, whenever        *)
(* IsValid is true the stored session key is the one the session record's  *)
(* encryptedKey was made with: GetCachedKey succeeds and returns the key   *)
(* given to the latest successful CreateSession.                           *)
(* Violated: a CreateSession whose second Put fails leaves the new record  *)
(* next to the old session key or none, and a Clear whose first Delete     *)
(* fails leaves the record without its key.                                *)
(***************************************************************************)
C38_ValidSessionHasKey ==
    IsValid(sys, cfgSecs, now) =>
        /\ sys[sessionKeyKey] # Absent
        /\ sys[sessionDataKey].encryptedKey.k = sys[sessionKeyKey]
        /\ GetCachedKey(sys, cfgSecs, now) = [err |-> NoErr, val |-> out.key]

(***************************************************************************)
(* SpecAlias: the calls of SpecRace, and an Unlock that is given again the *)
(* slice an earlier Unlock was given, after a Lock has returned.           *)
(***************************************************************************)
RcUnlockSame ==
    /\ pc.locker = "returned" /\ Returned(pc.worker)
    /\ pc.given
    /\ ~vault.unlocked
    /\ vault' = VaultUnlock(vault, KeyRef)
    /\ pc' = [NoCalls EXCEPT !.given = TRUE]
    /\ out' = NoOut("UnlockSame")
    /\ UNCHANGED <<now, sys, secrets, cfgSecs, heap>>

NextAlias ==
    \/ NextRace
    \/ RcUnlockSame

SpecAlias == InitRace /\ [][NextAlias]_vars

(***************************************************************************)
(* C39: Unlock keeps the caller's slice, not a copy, so Lock zeroes the    *)
(* caller's bytes: once a Lock that followed Unlock(k) has returned, every *)
(* byte of k as the caller sees it is 0; and an Unlock given that same     *)
(* slice afterwards installs a key whose bytes are all 0.                  *)
(***************************************************************************)
AllZero(h) == \A b \in 1 .. KeyBytes : h[b] = 0

C39_WitnessZeroKeyUsed ==
    /\ out.op = "Encrypt"
    /\ out.err = NoErr
    /\ pc.locker = "idle"
    /\ vault.unlocked
    /\ out.arg = [t |-> "bytes", of |-> [b \in 1 .. KeyBytes |-> 0]]

(***************************************************************************)
(* C40: Add and Update do not look for an earlier entry.  On a vault       *)
(* holding a cipher key, Add with an id already in the store succeeds and  *)
(* replaces what was stored under it with the encryption of the new        *)
(* record; Update with an id not in the store succeeds and creates the     *)
(* entry; in both cases the store then holds one entry under that id and   *)
(* every other entry is unchanged.                                         *)
(***************************************************************************)
C40_NoExistenceCheck ==
    [][/\ (vault.unlocked /\ ValidKeySize(vault.key) /\ out'.op = "Add"
              /\ secrets[out'.arg.id] # Absent) =>
              /\ out'.err = NoErr
              /\ secrets'[out'.arg.id].t = "ct"
              /\ secrets'[out'.arg.id].pt = JsonMarshal(out'.arg)
              /\ RepoListKeys(secrets') = RepoListKeys(secrets)
              /\ \A k \in RepoIds \ {out'.arg.id} : secrets'[k] = secrets[k]
       /\ (vault.unlocked /\ ValidKeySize(vault.key) /\ out'.op = "Update"
              /\ secrets[out'.arg.id] = Absent) =>
              /\ out'.err = NoErr
              /\ secrets'[out'.arg.id].t = "ct"
              /\ secrets'[out'.arg.id].pt =
                     JsonMarshal([out'.arg EXCEPT !.updatedAt = now])
              /\ RepoListKeys(secrets') = RepoListKeys(secrets) \cup {out'.arg.id}
              /\ \A k \in RepoIds \ {out'.arg.id} : secrets'[k] = secrets[k]]_vars

\* Add has replaced a stored record by one with another username, next to
\* another entry
C40_Witness ==
    /\ out.op = "Add"
    /\ out.err = NoErr
    /\ out.pre # Absent
    /\ out.pre.t = "ct"
    /\ out.pre.pt.t = "json"
    /\ out.pre.pt.of.username # out.arg.username
    /\ secrets[out.arg.id].pt = JsonMarshal(out.arg)
    /\ Cardinality(RepoListKeys(secrets)) = 2

\* Update has created an entry under an id that was not stored
C40_WitnessUpdateCreates ==
    /\ out.op = "Update"
    /\ out.err = NoErr
    /\ out.pre = Absent
    /\ secrets[out.arg.id].t = "ct"

====
